---- MODULE Spec2Model ----
(***************************************************************************)
(* Model of the photo-booth session controller, MainApp::update in         *)
(* src/src/frontend/main_app.rs, together with the camera feed loop of     *)
(* src/src/frontend/camera_feed.rs and the event loop of src/src/main.rs   *)
(* that delivers messages to it.                                           *)
(*                                                                         *)
(* Rust enums are records with a "tag" field, Option<T> is a sequence of   *)
(* length 0 (None) or 1 (Some), Vec<T> is a sequence.  A photograph is the *)
(* serial number of the capture_still_frame call that produced it, an      *)
(* upload handle is the serial number of the upload_photo call that        *)
(* produced it.                                                            *)
(***************************************************************************)
EXTENDS Integers, Sequences, FiniteSets, TLC

VARIABLES
    state,            \* MainApp.state : MainAppState
    captured_photos,  \* MainApp.captured_photos : Vec<RgbaImage>
    previews,         \* MainApp.previews : Vec<Handle>
    strip,            \* MainApp.strip : Option<RgbaImage>
    strip_handle,     \* MainApp.strip_handle : Option<Handle>
    emails,           \* MainApp.emails : Vec<String>
    upload_handle,    \* MainApp.upload_handle : Option<UploadHandle>
    qr_code_data,     \* MainApp.qr_code_data : Option<qr_code::Data>
    options,          \* MainApp.feed.options : CameraFeedOptions
    current_frame,    \* MainApp.feed.current_frame : Option<Handle>
    camLoop,          \* position of the live-preview loop of CameraFeed::update
    poisoned,         \* the camera mutex was poisoned by a panicking worker
    camera,           \* who holds the guard of CameraFeed.camera: "video", "still"
    stills,           \* number of capture_still_frame calls that returned a frame
    capIssued,        \* number of Task::done(CaptureStill) returned by update
    capDelivered,     \* number of those CaptureStill messages handled
    uploadLog,        \* the upload_photo calls made, in order: <<strip, photos>>
    uploadDone,       \* indices of uploadLog whose Uploaded message was handled
    emailLog,         \* the send_email calls made, in order
    emailDone,        \* indices of emailLog whose Emailed message was handled
    strays,           \* number of messages handled that nothing in flight accounts for
    cycleUploads,     \* upload_photo calls since update last found PaymentRequired
    paid_is_unlocked, \* ServerBackend::is_unlocked: the visitor is eligible
    coordinator,      \* one run of upload_photos / upload_photo, seen from inside
    take,             \* one call of render_take: template, photographs, outcome
    nokhwa,           \* a NokhwaCamera: video_camera, still_camera, the calls made
    msg,              \* the message handled by the last call of update
    task,             \* the Task returned by the last call of update
    panic             \* "none", or the message of the panic that ended the program

Session == <<captured_photos, previews, strip, strip_handle, emails,
             upload_handle, qr_code_data>>
Feed == <<current_frame, camLoop, poisoned, camera>>
Requests == <<capIssued, uploadLog, emailLog>>
Delivered == <<capDelivered, uploadDone, emailDone, strays>>
vars == <<state, Session, options, Feed, stills, Requests, Delivered,
          cycleUploads, paid_is_unlocked, coordinator, take, nokhwa, msg, task, panic>>

----------------------------------------------------------------------------
(* Bounds of the model. *)

\* the camera delivers at most this many still frames in one run
MaxStills == 8
\* the visitor keeps at most this many entries in the recipient list
MaxEmails == 3
\* at most this many messages of a run are duplicates, late or out of phase
MaxStrays == 1

(* Values fixed by the program. *)
PHOTO_COUNT == 4
COUNTDOWN_START == 3

None == <<>>
Some(x) == <<x>>

(* The keys whose release main.rs hands to update as KeyReleased.  Escape  *)
(* is a KeyMessage too, but its release changes the window mode in main.rs *)
(* and never reaches update.                                               *)
Keys == {"Space", "Up", "Down"}
Addresses == {"", "a@x", "b@x"}

UploadErrorText == "The photos could not be uploaded. Please try again."
EmailErrorText == "The photos could not be emailed. Please try again."
UnreachedErrorText ==
    "Some email addresses provided could not be reached. Please contact photobooth@caj.ac.jp for assistance."

----------------------------------------------------------------------------
(* MainAppState and CapturePhotosState constructors. *)

PaymentRequired(error) == [tag |-> "PaymentRequired", error |-> error]
Preview == [tag |-> "Preview"]
CapturePhotosPrepare(tl) == [tag |-> "CapturePhotosPrepare", ready_timeline |-> tl]
CapturePhotos(cur, st) == [tag |-> "CapturePhotos", current |-> cur, state |-> st]
RenderedPreview(ptl, ttl) ==
    [tag |-> "RenderedPreview", progress_timeline |-> ptl,
     template_preview_timeline |-> ttl]
EmailEntry == [tag |-> "EmailEntry"]
Emailing(tl) == [tag |-> "Emailing", progress_timeline |-> tl]

Countdown(cur, tl) == [tag |-> "Countdown", current |-> cur, countdown_timeline |-> tl]
Capture(tl) == [tag |-> "Capture", capture_timeline |-> tl]
CapPreview(tl, h) == [tag |-> "Preview", preview_timeline |-> tl, captured_handle |-> h]

(* anim::Timeline: to_timeline() gives an idle timeline, begin_animation() *)
(* an animating one; update() completes an animating timeline once its     *)
(* duration has elapsed and leaves an idle or completed one as it is.      *)
to_timeline == "idle"
begin_animation == "animating"
TimelineUpdate(tl, elapsed) == IF tl = "animating" /\ elapsed THEN "completed" ELSE tl
is_completed(tl) == tl = "completed"

(* iced image Handle::from_rgba of a pixel buffer. *)
Handle(image) == [handle_of |-> image]

(* render_take: the strip composed of the photographs, which must be 4. *)
render_take_ok_AtMost(photos) == Len(photos) <= 4

render_take_ok(photos) == Len(photos) = 4
render_take(photos) == [strip_of |-> photos]

(* ServerBackend::get_link and qr_code::Data::with_version. *)
get_link(handle) == [link_to |-> handle]
QrData(link) == [qr_of |-> link]

(* qr_code::Data::with_version(link, Version::Normal(5), Medium): the QR   *)
(* data of the link, or an error when the link does not fit the version.   *)
(* fits: the link the backend gave is short enough.                        *)
with_version(link, fits) == IF fits THEN <<"Ok", QrData(link)>> ELSE <<"Err">>

(* The options update() stores in the feed, chosen by the phase it is in   *)
(* when the message arrives.                                               *)
CaptureOptions == [blur |-> 1, aspect_ratio |-> Some("3:2"), mirror |-> TRUE]
OtherOptions == [blur |-> 20, aspect_ratio |-> None, mirror |-> TRUE]
DefaultOptions == [blur |-> 0, aspect_ratio |-> None, mirror |-> FALSE]
IsCaptureFamily(s) == s.tag \in {"CapturePhotosPrepare", "CapturePhotos", "Preview"}
OptionsFor(s) == IF IsCaptureFamily(s) THEN CaptureOptions ELSE OtherOptions

----------------------------------------------------------------------------
InitApp ==
    /\ state = PaymentRequired(None)
    /\ captured_photos = <<>>
    /\ previews = <<>>
    /\ strip = None
    /\ strip_handle = None
    /\ emails = <<>>
    /\ upload_handle = None
    /\ qr_code_data = None
    /\ options = DefaultOptions
    /\ current_frame = None
    /\ camLoop = "CaptureFrame"
    /\ poisoned = FALSE
    /\ camera = {}
    /\ stills = 0
    /\ capIssued = 0
    /\ capDelivered = 0
    /\ uploadLog = <<>>
    /\ uploadDone = {}
    /\ emailLog = <<>>
    /\ emailDone = {}
    /\ strays = 0
    /\ cycleUploads = 0
    /\ paid_is_unlocked \in BOOLEAN
    /\ msg = <<"none">>
    /\ task = "none"
    /\ panic = "none"

(* No run of an upload is looked into. *)
NoUpload ==
    [backend |-> "none", stage |-> "done", join_handles |-> <<>>, next |-> 1,
     result |-> "pending", inserted |-> FALSE]

(* No call of render_take is looked into. *)
NoTake == [template |-> <<0, 0>>, photos |-> <<>>, out |-> <<"done">>, again |-> <<"done">>]

(* NokhwaCamera::new: no stream is open; no call has been made. *)
NewNokhwaCamera == [video_camera |-> None, still_camera |-> None, calls |-> <<>>]

Init ==
    /\ InitApp
    /\ coordinator = NoUpload
    /\ take = NoTake
    /\ nokhwa = NewNokhwaCamera

(* Every call of update first stores the feed options of the phase it     *)
(* finds.  No call asks the backend whether the visitor is eligible.       *)
(* Variant that recomputes the feed options on Tick only.                  *)
Begin_OptionsOnTick(m) ==
    /\ panic = "none"
    /\ "still" \in camera => m = <<"CaptureStill">>
    /\ msg' = m
    /\ options' = IF m[1] = "Tick" THEN OptionsFor(state) ELSE options
    /\ UNCHANGED <<paid_is_unlocked, coordinator, take, nokhwa>>

Begin(m) ==
    /\ panic = "none"
    /\ "still" \in camera => m = <<"CaptureStill">>
    /\ msg' = m
    /\ options' = OptionsFor(state)
    /\ UNCHANGED <<paid_is_unlocked, coordinator, take, nokhwa>>

(* The upload_photo calls of the session cycle: counted from the last call *)
(* of update that found the controller in PaymentRequired.                 *)
Account ==
    cycleUploads' = (IF state.tag = "PaymentRequired" THEN 0 ELSE cycleUploads)
                    + (Len(uploadLog') - Len(uploadLog))

(* A panic inside update ends the program. *)
Panic(text) ==
    /\ panic' = text
    /\ task' = "none"
    /\ UNCHANGED <<state, Session, Feed, stills, Requests>>

----------------------------------------------------------------------------
(* Variant of the CaptureStill arm that pushes the photograph and leaves   *)
(* the flash as it is, not begun.                                          *)
OnCaptureStill_NoFlash(ok) ==
    /\ Begin(<<"CaptureStill">>)
    /\ stills < MaxStills
    /\ IF poisoned THEN Panic("failed to lock camera mutex")
       ELSE IF ~ok
       THEN /\ "still" \in camera
            /\ Panic("failed to capture image")
       ELSE /\ "still" \in camera
            /\ camera' = camera \ {"still"}
            /\ stills' = stills + 1
            /\ captured_photos' = Append(captured_photos, stills + 1)
            /\ task' = "none"
            /\ UNCHANGED <<state, previews, strip, strip_handle, emails, upload_handle,
                           qr_code_data, current_frame, camLoop, poisoned,
                           Requests, panic>>

(* MainAppMessage::CaptureStill: capture a still synchronously, push it,   *)
(* and restart the flash when in CapturePhotos.  ok: the camera returned a *)
(* frame.                                                                  *)
OnCaptureStill(ok) ==
    /\ Begin(<<"CaptureStill">>)
    /\ stills < MaxStills
    /\ IF poisoned THEN Panic("failed to lock camera mutex")
       ELSE IF ~ok
       THEN /\ "still" \in camera
            /\ Panic("failed to capture image")
       ELSE /\ "still" \in camera
            /\ camera' = camera \ {"still"}
            /\ stills' = stills + 1
            /\ captured_photos' = Append(captured_photos, stills + 1)
            /\ state' = IF state.tag = "CapturePhotos"
                        THEN CapturePhotos(state.current, Capture(begin_animation))
                        ELSE state
            /\ task' = "none"
            /\ UNCHANGED <<previews, strip, strip_handle, emails, upload_handle,
                           qr_code_data, current_frame, camLoop, poisoned,
                           Requests, panic>>

(* Tick in CapturePhotosPrepare. *)
TickPrepare(elapsed) ==
    /\ state' = IF is_completed(TimelineUpdate(state.ready_timeline, elapsed))
                THEN CapturePhotos(0, Countdown(COUNTDOWN_START, begin_animation))
                ELSE state
    /\ task' = "none"
    /\ UNCHANGED <<Session, Feed, stills, Requests, panic>>

(* TickCountdown requesting a still at every completed count. *)
TickCountdown_EveryCount(elapsed) ==
    LET cd == state.state IN
    /\ IF is_completed(TimelineUpdate(cd.countdown_timeline, elapsed))
       THEN /\ state' = IF cd.current - 1 = 0
                        THEN CapturePhotos(state.current, Capture(to_timeline))
                        ELSE CapturePhotos(state.current,
                                           Countdown(cd.current - 1, begin_animation))
            /\ task' = "CaptureStill"
            /\ capIssued' = capIssued + 1
       ELSE /\ UNCHANGED <<state, capIssued>>
            /\ task' = "none"
    /\ UNCHANGED <<Session, Feed, stills, uploadLog, emailLog, panic>>

(* Variant in which the count of the countdown also advances the shot      *)
(* counter (the two fields are both named current).                        *)
TickCountdown_SharedCounter(elapsed) ==
    LET cd == state.state IN
    /\ IF is_completed(TimelineUpdate(cd.countdown_timeline, elapsed))
       THEN IF cd.current - 1 = 0
            THEN /\ state' = CapturePhotos(state.current, Capture(to_timeline))
                 /\ task' = "CaptureStill"
                 /\ capIssued' = capIssued + 1
            ELSE /\ state' = CapturePhotos(state.current + 1,
                                           Countdown(cd.current - 1, begin_animation))
                 /\ task' = "none"
                 /\ UNCHANGED capIssued
       ELSE /\ UNCHANGED <<state, capIssued>>
            /\ task' = "none"
    /\ UNCHANGED <<Session, Feed, stills, uploadLog, emailLog, panic>>

(* Variant that lowers the count without starting a new countdown          *)
(* timeline: the completed one stays in the sub-state.                     *)
TickCountdown_NoRearm(elapsed) ==
    LET cd == state.state IN
    /\ IF is_completed(TimelineUpdate(cd.countdown_timeline, elapsed))
       THEN IF cd.current - 1 = 0
            THEN /\ state' = CapturePhotos(state.current, Capture(to_timeline))
                 /\ task' = "CaptureStill"
                 /\ capIssued' = capIssued + 1
            ELSE /\ state' = CapturePhotos(state.current,
                                           Countdown(cd.current - 1, "completed"))
                 /\ task' = "none"
                 /\ UNCHANGED capIssued
       ELSE /\ UNCHANGED <<state, capIssued>>
            /\ task' = "none"
    /\ UNCHANGED <<Session, Feed, stills, uploadLog, emailLog, panic>>

(* Variant that starts the flash timeline when it requests the still, so   *)
(* that the flash can complete before the still has been taken.            *)
TickCountdown_FlashAtOnce(elapsed) ==
    LET cd == state.state IN
    /\ IF is_completed(TimelineUpdate(cd.countdown_timeline, elapsed))
       THEN IF cd.current - 1 = 0
            THEN /\ state' = CapturePhotos(state.current, Capture(begin_animation))
                 /\ task' = "CaptureStill"
                 /\ capIssued' = capIssued + 1
            ELSE /\ state' = CapturePhotos(state.current,
                                           Countdown(cd.current - 1, begin_animation))
                 /\ task' = "none"
                 /\ UNCHANGED capIssued
       ELSE /\ UNCHANGED <<state, capIssued>>
            /\ task' = "none"
    /\ UNCHANGED <<Session, Feed, stills, uploadLog, emailLog, panic>>

(* Variant that tests the count before it lowers it: the count reaches 0   *)
(* and the still is requested at the fourth completion.                    *)
TickCountdown_TestBeforeDecrement(elapsed) ==
    LET cd == state.state IN
    /\ IF is_completed(TimelineUpdate(cd.countdown_timeline, elapsed))
       THEN IF cd.current = 0
            THEN /\ state' = CapturePhotos(state.current, Capture(to_timeline))
                 /\ task' = "CaptureStill"
                 /\ capIssued' = capIssued + 1
            ELSE /\ state' = CapturePhotos(state.current,
                                           Countdown(cd.current - 1, begin_animation))
                 /\ task' = "none"
                 /\ UNCHANGED capIssued
       ELSE /\ UNCHANGED <<state, capIssued>>
            /\ task' = "none"
    /\ UNCHANGED <<Session, Feed, stills, uploadLog, emailLog, panic>>

(* Tick in CapturePhotos, sub-state Countdown. *)
TickCountdown(elapsed) ==
    LET cd == state.state IN
    /\ IF is_completed(TimelineUpdate(cd.countdown_timeline, elapsed))
       THEN IF cd.current - 1 = 0
            THEN /\ state' = CapturePhotos(state.current, Capture(to_timeline))
                 /\ task' = "CaptureStill"
                 /\ capIssued' = capIssued + 1
            ELSE /\ state' = CapturePhotos(state.current,
                                           Countdown(cd.current - 1, begin_animation))
                 /\ task' = "none"
                 /\ UNCHANGED capIssued
       ELSE /\ UNCHANGED <<state, capIssued>>
            /\ task' = "none"
    /\ UNCHANGED <<Session, Feed, stills, uploadLog, emailLog, panic>>

(* Tick in CapturePhotos, sub-state Capture (the flash). *)
TickCapture(elapsed) ==
    LET cp == state.state IN
    IF is_completed(TimelineUpdate(cp.capture_timeline, elapsed))
    THEN IF captured_photos = <<>>
         THEN Panic("capture didn't complete")
         ELSE /\ state' = CapturePhotos(state.current,
                    CapPreview(begin_animation,
                               Handle(captured_photos[Len(captured_photos)])))
              /\ task' = "none"
              /\ UNCHANGED <<Session, Feed, stills, Requests, panic>>
    ELSE /\ task' = "none"
         /\ UNCHANGED <<state, Session, Feed, stills, Requests, panic>>

(* TickPreview with the photographs cloned at compose instead of drained. *)
TickPreview_NoDrain(elapsed) ==
    LET pv == state.state
        old == captured_photos
    IN
    IF is_completed(TimelineUpdate(pv.preview_timeline, elapsed))
    THEN IF state.current + 1 < PHOTO_COUNT
         THEN /\ state' = CapturePhotos(state.current + 1,
                                        Countdown(COUNTDOWN_START, begin_animation))
              /\ task' = "none"
              /\ UNCHANGED <<Session, Feed, stills, Requests, panic>>
         ELSE IF ~render_take_ok(old)
              THEN Panic("Expected 4 photos")
              ELSE /\ previews' = [i \in 1..Len(old) |-> Handle(old[i])]
                   /\ strip' = Some(render_take(old))
                   /\ strip_handle' = Some(Handle(render_take(old)))
                   /\ upload_handle' = None
                   /\ qr_code_data' = None
                   /\ state' = RenderedPreview(begin_animation, begin_animation)
                   /\ uploadLog' = Append(uploadLog,
                                          [strip |-> render_take(old), photos |-> old])
                   /\ task' = "upload_photo"
                   /\ UNCHANGED <<captured_photos, emails, Feed, stills, capIssued,
                                  emailLog, panic>>
    ELSE /\ task' = "none"
         /\ UNCHANGED <<state, Session, Feed, stills, Requests, panic>>

(* TickPreview that composes without resetting upload_handle and the QR    *)
(* data.                                                                   *)
TickPreview_KeepsHandle(elapsed) ==
    LET pv == state.state
        old == captured_photos
    IN
    IF is_completed(TimelineUpdate(pv.preview_timeline, elapsed))
    THEN IF state.current + 1 < PHOTO_COUNT
         THEN /\ state' = CapturePhotos(state.current + 1,
                                        Countdown(COUNTDOWN_START, begin_animation))
              /\ task' = "none"
              /\ UNCHANGED <<Session, Feed, stills, Requests, panic>>
         ELSE IF ~render_take_ok(old)
              THEN Panic("Expected 4 photos")
              ELSE /\ captured_photos' = <<>>
                   /\ previews' = [i \in 1..Len(old) |-> Handle(old[i])]
                   /\ strip' = Some(render_take(old))
                   /\ strip_handle' = Some(Handle(render_take(old)))
                   /\ state' = RenderedPreview(begin_animation, begin_animation)
                   /\ uploadLog' = Append(uploadLog,
                                          [strip |-> render_take(old), photos |-> old])
                   /\ task' = "upload_photo"
                   /\ UNCHANGED <<emails, upload_handle, qr_code_data, Feed, stills,
                                  capIssued, emailLog, panic>>
    ELSE /\ task' = "none"
         /\ UNCHANGED <<state, Session, Feed, stills, Requests, panic>>

(* Tick in CapturePhotos, sub-state Preview: next shot, or compose the     *)
(* strip and start the upload.                                             *)
TickPreview(elapsed) ==
    LET pv == state.state
        old == captured_photos
    IN
    IF is_completed(TimelineUpdate(pv.preview_timeline, elapsed))
    THEN IF state.current + 1 < PHOTO_COUNT
         THEN /\ state' = CapturePhotos(state.current + 1,
                                        Countdown(COUNTDOWN_START, begin_animation))
              /\ task' = "none"
              /\ UNCHANGED <<Session, Feed, stills, Requests, panic>>
         ELSE IF ~render_take_ok(old)
              THEN Panic("Expected 4 photos")
              ELSE /\ captured_photos' = <<>>
                   /\ previews' = [i \in 1..Len(old) |-> Handle(old[i])]
                   /\ strip' = Some(render_take(old))
                   /\ strip_handle' = Some(Handle(render_take(old)))
                   /\ upload_handle' = None
                   /\ qr_code_data' = None
                   /\ state' = RenderedPreview(begin_animation, begin_animation)
                   /\ uploadLog' = Append(uploadLog,
                                          [strip |-> render_take(old), photos |-> old])
                   /\ task' = "upload_photo"
                   /\ UNCHANGED <<emails, Feed, stills, capIssued, emailLog, panic>>
    ELSE /\ task' = "none"
         /\ UNCHANGED <<state, Session, Feed, stills, Requests, panic>>

(* Variant of the entry into EmailEntry that leaves emails as the last     *)
(* session left it.                                                        *)
TickRendered_KeepsEmails(elapsedProgress, elapsedTemplate) ==
    LET ttl == TimelineUpdate(state.template_preview_timeline, elapsedTemplate)
        ptl == TimelineUpdate(state.progress_timeline, elapsedProgress)
    IN
    /\ IF is_completed(ptl) /\ is_completed(ttl)
       THEN /\ state' = EmailEntry
            /\ task' = "focus"
       ELSE /\ state' = RenderedPreview(ptl, ttl)
            /\ task' = "none"
    /\ UNCHANGED <<captured_photos, previews, strip, strip_handle, emails,
                   upload_handle, qr_code_data, Feed, stills, Requests, panic>>

(* Tick in RenderedPreview: both timelines are updated; EmailEntry once    *)
(* both have completed.                                                    *)
TickRendered(elapsedProgress, elapsedTemplate) ==
    LET ttl == TimelineUpdate(state.template_preview_timeline, elapsedTemplate)
        ptl == TimelineUpdate(state.progress_timeline, elapsedProgress)
    IN
    /\ IF is_completed(ptl) /\ is_completed(ttl)
       THEN /\ state' = EmailEntry
            /\ emails' = <<"">>
            /\ task' = "focus"
       ELSE /\ state' = RenderedPreview(ptl, ttl)
            /\ task' = "none"
            /\ UNCHANGED emails
    /\ UNCHANGED <<captured_photos, previews, strip, strip_handle, upload_handle,
                   qr_code_data, Feed, stills, Requests, panic>>

(* MainAppMessage::Tick. *)
OnTick(elapsed, elapsedTemplate) ==
    /\ Begin(<<"Tick">>)
    /\ CASE state.tag = "CapturePhotosPrepare" -> TickPrepare(elapsed)
         [] state.tag = "CapturePhotos" /\ state.state.tag = "Countdown" ->
                TickCountdown(elapsed)
         [] state.tag = "CapturePhotos" /\ state.state.tag = "Capture" ->
                TickCapture(elapsed)
         [] state.tag = "CapturePhotos" /\ state.state.tag = "Preview" ->
                TickPreview(elapsed)
         [] state.tag = "RenderedPreview" -> TickRendered(elapsed, elapsedTemplate)
         [] OTHER -> /\ task' = "none"
                     /\ UNCHANGED <<state, Session, Feed, stills, Requests, panic>>

(* The Ok arm of Uploaded: store the handle, then make the QR data of its  *)
(* link; the expect on with_version panics when the link does not fit,     *)
(* with the handle stored.                                                 *)
StoreHandle(res) ==
    \E fits \in BOOLEAN :
        LET qr == with_version(get_link(res), fits) IN
        /\ upload_handle' = Some(res)
        /\ IF qr[1] = "Ok"
           THEN qr_code_data' = Some(qr[2]) /\ UNCHANGED panic
           ELSE panic' = "could not create qr code" /\ UNCHANGED qr_code_data

(* OnUploaded starting the upload again after a failure. *)
OnUploaded_Retrying(result) ==
    /\ Begin(<<"Uploaded", result>>)
    /\ IF result[1] = "Ok"
       THEN /\ StoreHandle(result[2])
            /\ task' = "none"
            /\ UNCHANGED <<state, uploadLog>>
       ELSE /\ uploadLog' = Append(uploadLog, uploadLog[Len(uploadLog)])
            /\ task' = "upload_photo"
            /\ UNCHANGED <<state, upload_handle, qr_code_data, panic>>
    /\ UNCHANGED <<captured_photos, previews, strip, strip_handle, emails,
                   Feed, stills, capIssued, emailLog>>

(* OnUploaded leaving the phase as it is after a failure. *)
OnUploaded_NoFallback(result) ==
    /\ Begin(<<"Uploaded", result>>)
    /\ IF result[1] = "Ok"
       THEN StoreHandle(result[2])
       ELSE UNCHANGED <<upload_handle, qr_code_data, panic>>
    /\ task' = "none"
    /\ UNCHANGED <<state, captured_photos, previews, strip, strip_handle, emails,
                   Feed, stills, Requests>>

(* MainAppMessage::Uploaded.  result is <<"Ok", handle>> or <<"Err">>. *)
OnUploaded(result) ==
    /\ Begin(<<"Uploaded", result>>)
    /\ IF result[1] = "Ok"
       THEN /\ StoreHandle(result[2])
            /\ UNCHANGED state
       ELSE /\ state' = PaymentRequired(Some(UploadErrorText))
            /\ UNCHANGED <<upload_handle, qr_code_data, panic>>
    /\ task' = "none"
    /\ UNCHANGED <<captured_photos, previews, strip, strip_handle, emails,
                   Feed, stills, Requests>>

(* MainAppMessage::KeyReleased. *)
(* Variant in which Down cancels the preparation and returns to Preview.   *)
OnKeyReleased_DownBack(key) ==
    /\ Begin(<<"KeyReleased", key>>)
    /\ CASE state.tag = "PaymentRequired" ->
                /\ state' = IF key = "Space" THEN Preview ELSE state
                /\ task' = IF key = "Escape" THEN "focus" ELSE "none"
         [] state.tag = "Preview" ->
                /\ state' = CapturePhotosPrepare(begin_animation)
                /\ task' = "none"
         [] state.tag = "CapturePhotosPrepare" ->
                /\ state' = IF key = "Down" THEN Preview ELSE state
                /\ task' = "none"
         [] state.tag = "RenderedPreview" ->
                /\ state' = RenderedPreview(begin_animation,
                                            state.template_preview_timeline)
                /\ task' = "none"
         [] state.tag = "EmailEntry" ->
                /\ task' = "focus"
                /\ UNCHANGED state
         [] OTHER ->
                /\ task' = "none"
                /\ UNCHANGED state
    /\ UNCHANGED <<Session, Feed, stills, Requests, panic>>

OnKeyReleased(key) ==
    /\ Begin(<<"KeyReleased", key>>)
    /\ CASE state.tag = "PaymentRequired" ->
                /\ state' = IF key = "Space" THEN Preview ELSE state
                /\ task' = IF key = "Escape" THEN "focus" ELSE "none"
         [] state.tag = "Preview" ->
                /\ state' = CapturePhotosPrepare(begin_animation)
                /\ task' = "none"
         [] state.tag = "RenderedPreview" ->
                /\ state' = RenderedPreview(begin_animation,
                                            state.template_preview_timeline)
                /\ task' = "none"
         [] state.tag = "EmailEntry" ->
                /\ task' = "focus"
                /\ UNCHANGED state
         [] OTHER ->
                /\ task' = "none"
                /\ UNCHANGED state
    /\ UNCHANGED <<Session, Feed, stills, Requests, panic>>

(* MainAppMessage::OtherKeyPress. *)
OnOtherKeyPress ==
    /\ Begin(<<"OtherKeyPress">>)
    /\ task' = "focus"
    /\ UNCHANGED <<state, Session, Feed, stills, Requests, panic>>

(* MainAppMessage::EmailInput. *)
OnEmailInput(email) ==
    /\ Begin(<<"EmailInput", email>>)
    /\ emails' = IF emails = <<>> THEN <<email>> ELSE [emails EXCEPT ![1] = email]
    /\ task' = "none"
    /\ UNCHANGED <<state, captured_photos, previews, strip, strip_handle,
                   upload_handle, qr_code_data, Feed, stills, Requests, panic>>

(* OnEmailSubmit without the early return for a missing upload handle. *)
OnEmailSubmit_NoUploadGuard ==
    /\ Begin(<<"EmailSubmit">>)
    /\ IF emails = <<>>
       THEN Panic("index out of bounds")
       ELSE IF Len(emails[1]) > 0
       THEN /\ Len(emails) < MaxEmails
            /\ emails' = <<"">> \o emails
            /\ task' = "none"
            /\ UNCHANGED <<state, captured_photos, previews, strip, strip_handle,
                           upload_handle, qr_code_data, Feed, stills, Requests, panic>>
       ELSE IF Tail(emails) = <<>>
       THEN /\ emails' = <<>>
            /\ state' = PaymentRequired(None)
            /\ task' = "none"
            /\ UNCHANGED <<captured_photos, previews, strip, strip_handle,
                           upload_handle, qr_code_data, Feed, stills, Requests, panic>>
       ELSE IF upload_handle # None
       THEN /\ emailLog' = Append(emailLog, [handle |-> upload_handle[1],
                                             emails |-> Tail(emails)])
            /\ upload_handle' = None
            /\ state' = Emailing(begin_animation)
            /\ emails' = <<>>
            /\ strip_handle' = None
            /\ strip' = None
            /\ task' = "send_email"
            /\ UNCHANGED <<captured_photos, previews, qr_code_data, Feed, stills,
                           capIssued, uploadLog, panic>>
       ELSE /\ emails' = Tail(emails)
            /\ state' = PaymentRequired(Some(EmailErrorText))
            /\ task' = "none"
            /\ UNCHANGED <<captured_photos, previews, strip, strip_handle,
                           upload_handle, qr_code_data, Feed, stills, Requests, panic>>

(* OnEmailSubmit cloning the upload handle for send_email instead of       *)
(* taking it.                                                              *)
OnEmailSubmit_CloneHandle ==
    /\ Begin(<<"EmailSubmit">>)
    /\ IF upload_handle = None
       THEN /\ task' = "none"
            /\ UNCHANGED <<state, Session, Feed, stills, Requests, panic>>
       ELSE IF emails = <<>>
       THEN Panic("index out of bounds")
       ELSE IF Len(emails[1]) > 0
       THEN /\ Len(emails) < MaxEmails
            /\ emails' = <<"">> \o emails
            /\ task' = "none"
            /\ UNCHANGED <<state, captured_photos, previews, strip, strip_handle,
                           upload_handle, qr_code_data, Feed, stills, Requests, panic>>
       ELSE IF Tail(emails) = <<>>
       THEN /\ emails' = <<>>
            /\ state' = PaymentRequired(None)
            /\ task' = "none"
            /\ UNCHANGED <<captured_photos, previews, strip, strip_handle,
                           upload_handle, qr_code_data, Feed, stills, Requests, panic>>
       ELSE /\ emailLog' = Append(emailLog, [handle |-> upload_handle[1],
                                             emails |-> Tail(emails)])
            /\ state' = Emailing(begin_animation)
            /\ emails' = <<>>
            /\ strip_handle' = None
            /\ strip' = None
            /\ task' = "send_email"
            /\ UNCHANGED <<captured_photos, previews, upload_handle, qr_code_data,
                           Feed, stills, capIssued, uploadLog, panic>>

(* MainAppMessage::EmailSubmit. *)
(* Variant that does not remove the input slot before it looks at the     *)
(* recipients: the list it dispatches is the whole of emails.              *)
OnEmailSubmit_KeepsInputSlot ==
    /\ Begin(<<"EmailSubmit">>)
    /\ IF upload_handle = None
       THEN /\ task' = "none"
            /\ UNCHANGED <<state, Session, Feed, stills, Requests, panic>>
       ELSE IF emails = <<>>
       THEN Panic("index out of bounds")
       ELSE IF Len(emails[1]) > 0
       THEN /\ Len(emails) < MaxEmails
            /\ emails' = <<"">> \o emails
            /\ task' = "none"
            /\ UNCHANGED <<state, captured_photos, previews, strip, strip_handle,
                           upload_handle, qr_code_data, Feed, stills, Requests, panic>>
       ELSE /\ emailLog' = Append(emailLog, [handle |-> upload_handle[1],
                                             emails |-> emails])
            /\ upload_handle' = None
            /\ state' = Emailing(begin_animation)
            /\ emails' = <<>>
            /\ strip_handle' = None
            /\ strip' = None
            /\ task' = "send_email"
            /\ UNCHANGED <<captured_photos, previews, qr_code_data, Feed, stills,
                           capIssued, uploadLog, panic>>

(* Variant that empties the input slot of a typed address instead of       *)
(* putting a new slot in front of it.                                      *)
OnEmailSubmit_ClearsInput ==
    /\ Begin(<<"EmailSubmit">>)
    /\ IF upload_handle = None
       THEN /\ task' = "none"
            /\ UNCHANGED <<state, Session, Feed, stills, Requests, panic>>
       ELSE IF emails = <<>>
       THEN Panic("index out of bounds")
       ELSE IF Len(emails[1]) > 0
       THEN /\ emails' = [emails EXCEPT ![1] = ""]
            /\ task' = "none"
            /\ UNCHANGED <<state, captured_photos, previews, strip, strip_handle,
                           upload_handle, qr_code_data, Feed, stills, Requests, panic>>
       ELSE IF Tail(emails) = <<>>
       THEN /\ emails' = <<>>
            /\ state' = PaymentRequired(None)
            /\ task' = "none"
            /\ UNCHANGED <<captured_photos, previews, strip, strip_handle,
                           upload_handle, qr_code_data, Feed, stills, Requests, panic>>
       ELSE /\ emailLog' = Append(emailLog, [handle |-> upload_handle[1],
                                             emails |-> Tail(emails)])
            /\ upload_handle' = None
            /\ state' = Emailing(begin_animation)
            /\ emails' = <<>>
            /\ strip_handle' = None
            /\ strip' = None
            /\ task' = "send_email"
            /\ UNCHANGED <<captured_photos, previews, qr_code_data, Feed, stills,
                           capIssued, uploadLog, panic>>

OnEmailSubmit ==
    /\ Begin(<<"EmailSubmit">>)
    /\ IF upload_handle = None
       THEN /\ task' = "none"
            /\ UNCHANGED <<state, Session, Feed, stills, Requests, panic>>
       ELSE IF emails = <<>>
       THEN Panic("index out of bounds")
       ELSE IF Len(emails[1]) > 0
       THEN /\ Len(emails) < MaxEmails
            /\ emails' = <<"">> \o emails
            /\ task' = "none"
            /\ UNCHANGED <<state, captured_photos, previews, strip, strip_handle,
                           upload_handle, qr_code_data, Feed, stills, Requests, panic>>
       ELSE IF Tail(emails) = <<>>
       THEN /\ emails' = <<>>
            /\ state' = PaymentRequired(None)
            /\ task' = "none"
            /\ UNCHANGED <<captured_photos, previews, strip, strip_handle,
                           upload_handle, qr_code_data, Feed, stills, Requests, panic>>
       ELSE /\ emailLog' = Append(emailLog, [handle |-> upload_handle[1],
                                             emails |-> Tail(emails)])
            /\ upload_handle' = None
            /\ state' = Emailing(begin_animation)
            /\ emails' = <<>>
            /\ strip_handle' = None
            /\ strip' = None
            /\ task' = "send_email"
            /\ UNCHANGED <<captured_photos, previews, qr_code_data, Feed, stills,
                           capIssued, uploadLog, panic>>

(* MainAppMessage::Emailed.  result is <<"Ok", all_success>> or <<"Err">>. *)
(* Variant in which a failed dispatch returns to EmailEntry for a retry.   *)
OnEmailed_RetryEntry(result) ==
    /\ Begin(<<"Emailed", result>>)
    /\ IF state.tag = "Emailing"
       THEN state' = IF result[1] = "Ok"
                     THEN IF result[2] THEN PaymentRequired(None)
                          ELSE PaymentRequired(Some(UnreachedErrorText))
                     ELSE EmailEntry
       ELSE UNCHANGED state
    /\ task' = "none"
    /\ UNCHANGED <<Session, Feed, stills, Requests, panic>>

(* Variant that ignores the flag of a successful dispatch.                 *)
OnEmailed_IgnoresFlag(result) ==
    /\ Begin(<<"Emailed", result>>)
    /\ IF state.tag = "Emailing"
       THEN state' = IF result[1] = "Ok"
                     THEN PaymentRequired(Some(UnreachedErrorText))
                     ELSE PaymentRequired(Some(EmailErrorText))
       ELSE UNCHANGED state
    /\ task' = "none"
    /\ UNCHANGED <<Session, Feed, stills, Requests, panic>>

(* Variant of the Emailed arm that does not match on the phase.            *)
OnEmailed_NoPhaseCheck(result) ==
    /\ Begin(<<"Emailed", result>>)
    /\ state' = IF result[1] = "Ok"
                THEN IF result[2] THEN PaymentRequired(None)
                     ELSE PaymentRequired(Some(UnreachedErrorText))
                ELSE PaymentRequired(Some(EmailErrorText))
    /\ task' = "none"
    /\ UNCHANGED <<Session, Feed, stills, Requests, panic>>

(* Variant that takes every Ok for a dispatch that reached everybody.      *)
OnEmailed_OkIsSuccess(result) ==
    /\ Begin(<<"Emailed", result>>)
    /\ IF state.tag = "Emailing"
       THEN state' = IF result[1] = "Ok"
                     THEN PaymentRequired(None)
                     ELSE PaymentRequired(Some(EmailErrorText))
       ELSE UNCHANGED state
    /\ task' = "none"
    /\ UNCHANGED <<Session, Feed, stills, Requests, panic>>

OnEmailed(result) ==
    /\ Begin(<<"Emailed", result>>)
    /\ IF state.tag = "Emailing"
       THEN state' = IF result[1] = "Ok"
                     THEN IF result[2] THEN PaymentRequired(None)
                          ELSE PaymentRequired(Some(UnreachedErrorText))
                     ELSE PaymentRequired(Some(EmailErrorText))
       ELSE UNCHANGED state
    /\ task' = "none"
    /\ UNCHANGED <<Session, Feed, stills, Requests, panic>>

(* MainAppMessage::Camera(CaptureFrame): start a blocking worker that      *)
(* captures a video frame.                                                 *)
OnCameraCaptureFrame ==
    /\ Begin(<<"Camera", "CaptureFrame">>)
    /\ camLoop = "CaptureFrame"
    /\ camLoop' = "worker"
    /\ task' = "capture_video_frame"
    /\ UNCHANGED <<state, Session, current_frame, poisoned, camera, stills,
                   Requests, panic>>

(* The blocking worker: lock the camera, capture a video frame, post       *)
(* NewFrame.  A failing capture panics with the camera mutex held.         *)
VideoWorker(ok) ==
    /\ panic = "none"
    /\ camLoop = "locked"
    /\ camera' = camera \ {"video"}
    /\ IF ok THEN camLoop' = "NewFrame" /\ UNCHANGED poisoned
       ELSE camLoop' = "stopped" /\ poisoned' = TRUE
    /\ UNCHANGED <<state, Session, options, current_frame, stills, Requests,
                   paid_is_unlocked, coordinator, take, nokhwa,
                   msg, task, panic>>

(* A lock that does not wait for the holder of the guard. *)
lock_NoWait(who) ==
    /\ panic = "none"
    /\ ~poisoned
    /\ camera' = camera \cup {who}

(* Mutex::lock of the camera: it returns the guard when nobody holds it.   *)
lock(who) ==
    /\ panic = "none"
    /\ ~poisoned
    /\ camera = {}
    /\ camera' = camera \cup {who}

(* The blocking worker waits for the camera and takes the guard. *)
VideoWorkerLock ==
    /\ camLoop = "worker"
    /\ lock("video")
    /\ camLoop' = "locked"
    /\ UNCHANGED <<state, Session, options, current_frame, poisoned, stills,
                   Requests, paid_is_unlocked, coordinator, take, nokhwa,
                   msg, task, panic>>

(* capture_still_sync, called inside update, waits for the camera and      *)
(* takes the guard; the event loop is inside this call until the arm of    *)
(* CaptureStill returns.                                                   *)
StillLock ==
    /\ stills < MaxStills
    /\ lock("still")
    /\ UNCHANGED <<state, Session, options, current_frame, camLoop, poisoned,
                   stills, Requests, paid_is_unlocked, coordinator, take, nokhwa,
                   msg, task, panic>>

(* MainAppMessage::Camera(NewFrame): store the frame, ask for the next. *)
OnCameraNewFrame ==
    /\ Begin(<<"Camera", "NewFrame">>)
    /\ camLoop = "NewFrame"
    /\ camLoop' = "CaptureFrame"
    /\ current_frame' = Some("frame")
    /\ task' = "CaptureFrame"
    /\ UNCHANGED <<state, Session, poisoned, camera, stills, Requests, panic>>

----------------------------------------------------------------------------
(* The event loop of main.rs: the messages update is called with.          *)

(* The 30 Hz time subscription. *)
Tick ==
    /\ \E elapsed \in BOOLEAN, elapsedTemplate \in BOOLEAN :
          OnTick(elapsed, elapsedTemplate)
    /\ UNCHANGED Delivered
    /\ Account

(* The keyboard subscription. *)
KeyReleased ==
    /\ \E key \in Keys : OnKeyReleased(key)
    /\ UNCHANGED Delivered
    /\ Account

(* The CaptureStill message of a Task::done returned by an earlier Tick. *)
CaptureStill ==
    /\ capDelivered < capIssued
    /\ \E ok \in BOOLEAN : OnCaptureStill(ok)
    /\ capDelivered' = capDelivered + 1
    /\ UNCHANGED <<uploadDone, emailDone, strays>>
    /\ Account

(* The completion of an upload_photo future. *)
Uploaded ==
    /\ \E i \in (1..Len(uploadLog)) \ uploadDone :
          /\ \E result \in {<<"Ok", i>>, <<"Err">>} : OnUploaded(result)
          /\ uploadDone' = uploadDone \cup {i}
    /\ UNCHANGED <<capDelivered, emailDone, strays>>
    /\ Account

(* The completion of a send_email future. *)
Emailed ==
    /\ \E i \in (1..Len(emailLog)) \ emailDone :
          /\ \E result \in {<<"Ok", TRUE>>, <<"Ok", FALSE>>, <<"Err">>} :
                OnEmailed(result)
          /\ emailDone' = emailDone \cup {i}
    /\ UNCHANGED <<capDelivered, uploadDone, strays>>
    /\ Account

(* The text input of the EmailEntry view. *)
EmailInput ==
    /\ state.tag = "EmailEntry"
    /\ \E email \in Addresses : OnEmailInput(email)
    /\ UNCHANGED Delivered
    /\ Account

(* Enter in the text input, or the button, of the EmailEntry view. *)
EmailSubmit ==
    /\ state.tag = "EmailEntry"
    /\ OnEmailSubmit
    /\ UNCHANGED Delivered
    /\ Account

(* The live-preview loop of the camera feed. *)
CameraCaptureFrame ==
    /\ OnCameraCaptureFrame
    /\ UNCHANGED Delivered
    /\ Account
CameraWorkerLock ==
    /\ VideoWorkerLock
    /\ UNCHANGED <<Delivered, cycleUploads>>
CameraWorker ==
    /\ \E ok \in BOOLEAN : VideoWorker(ok)
    /\ UNCHANGED <<Delivered, cycleUploads>>
(* update is called with a CaptureStill that is in flight and reaches the  *)
(* lock of capture_still_sync.                                             *)
CaptureStillLock ==
    /\ capDelivered < capIssued
    /\ StillLock
    /\ UNCHANGED <<Delivered, cycleUploads>>
CameraNewFrame ==
    /\ OnCameraNewFrame
    /\ UNCHANGED Delivered
    /\ Account

Next ==
    \/ Tick
    \/ KeyReleased
    \/ CaptureStillLock
    \/ CaptureStill
    \/ Uploaded
    \/ Emailed
    \/ EmailInput
    \/ EmailSubmit
    \/ CameraCaptureFrame
    \/ CameraWorkerLock
    \/ CameraWorker
    \/ CameraNewFrame

Spec == Init /\ [][Next]_vars

(***************************************************************************)
(* The scheduling of the program: the blocking worker runs when it can,    *)
(* and a CaptureStill message that update returned is delivered; once it   *)
(* is delivered the loop waits in lock until the worker has let go, and    *)
(* the worker is started again only by the loop, so the still is not       *)
(* overtaken for ever.                                                     *)
(***************************************************************************)
FairSpec ==
    /\ Spec
    /\ WF_vars(CameraWorkerLock)
    /\ WF_vars(CameraWorker)
    /\ SF_vars(CaptureStillLock)
    /\ WF_vars(CaptureStill)

----------------------------------------------------------------------------
(***************************************************************************)
(* One run of an upload, seen from inside.  supabase.rs upload_photos      *)
(* spawns one task per photograph and then awaits the join handles in the  *)
(* order of the photographs, returning at the first Err; after the last    *)
(* it sends the insert-take request.  server.rs upload_photo creates the   *)
(* folder, then uploads the strip and the photographs one after the other, *)
(* returning at the first Err.  A sub-upload is "idle" before it is        *)
(* started, "running", and then "ok" or "failed".                          *)
(***************************************************************************)
SubUploads(backend) == IF backend = "supabase" THEN PHOTO_COUNT ELSE 1 + PHOTO_COUNT

StartUpload(backend) ==
    [backend |-> backend, stage |-> "token",
     join_handles |-> [i \in 1..SubUploads(backend) |-> "idle"], next |-> 1,
     result |-> "pending", inserted |-> FALSE]

InitUpload ==
    /\ InitApp
    /\ take = NoTake
    /\ nokhwa = NewNokhwaCamera
    /\ coordinator \in {StartUpload(b) : b \in {"supabase", "server"}}

App == <<state, Session, options, Feed, stills, Requests, Delivered,
         cycleUploads, paid_is_unlocked, msg, task, panic>>

Return(res) == [coordinator EXCEPT !.stage = "done", !.result = res]

(* service_account.token(..).await.map_err(..)? *)
UploadToken(ok) ==
    /\ coordinator.stage = "token"
    /\ coordinator' =
          IF ~ok THEN Return("Err")
          ELSE IF coordinator.backend = "supabase"
          THEN [coordinator EXCEPT !.stage = "joining",
                    !.join_handles = [i \in 1..PHOTO_COUNT |-> "running"]]
          ELSE [coordinator EXCEPT !.stage = "folder"]

(* The folder request of upload_photo; the strip's upload starts after it. *)
UploadFolder(ok) ==
    /\ coordinator.stage = "folder"
    /\ coordinator' =
          IF ~ok THEN Return("Err")
          ELSE [coordinator EXCEPT !.stage = "joining",
                    !.join_handles[1] = "running"]

(* A request that was sent comes back, with success or with an error. *)
SubUploadFinishes(i, ok) ==
    /\ coordinator.join_handles[i] = "running"
    /\ coordinator' = [coordinator EXCEPT
                          !.join_handles[i] = IF ok THEN "ok" ELSE "failed"]

(* Variant of the await that drops the error of a sub-upload. *)
Join_DropsError ==
    LET i == coordinator.next
        n == Len(coordinator.join_handles) IN
    /\ coordinator.stage = "joining"
    /\ coordinator.join_handles[i] \in {"ok", "failed"}
    /\ coordinator' =
          IF i < n
          THEN IF coordinator.backend = "supabase"
               THEN [coordinator EXCEPT !.next = i + 1]
               ELSE [coordinator EXCEPT !.next = i + 1,
                         !.join_handles[i + 1] = "running"]
          ELSE IF coordinator.backend = "supabase"
               THEN [coordinator EXCEPT !.stage = "insert"]
               ELSE Return("Ok")
    /\ UNCHANGED <<App, take, nokhwa>>

(* join_handle.await..? of upload_photos, upload_file(..).await? of        *)
(* upload_photo: the coordinator goes on when the sub-upload it waits for  *)
(* has finished.                                                           *)
Join ==
    LET i == coordinator.next
        n == Len(coordinator.join_handles) IN
    /\ coordinator.stage = "joining"
    /\ coordinator.join_handles[i] \in {"ok", "failed"}
    /\ coordinator' =
          IF coordinator.join_handles[i] = "failed" THEN Return("Err")
          ELSE IF i < n
          THEN IF coordinator.backend = "supabase"
               THEN [coordinator EXCEPT !.next = i + 1]
               ELSE [coordinator EXCEPT !.next = i + 1,
                         !.join_handles[i + 1] = "running"]
          ELSE IF coordinator.backend = "supabase"
               THEN [coordinator EXCEPT !.stage = "insert"]
               ELSE Return("Ok")
    /\ UNCHANGED <<App, take, nokhwa>>

(* The insert-take request of upload_photos. *)
InsertTake(ok) ==
    /\ coordinator.stage = "insert"
    /\ coordinator' = [Return(IF ok THEN "Ok" ELSE "Err") EXCEPT !.inserted = TRUE]

Token ==
    /\ \E ok \in BOOLEAN : UploadToken(ok)
    /\ UNCHANGED <<App, take, nokhwa>>
Folder ==
    /\ \E ok \in BOOLEAN : UploadFolder(ok)
    /\ UNCHANGED <<App, take, nokhwa>>
SubUpload ==
    /\ \E i \in 1..Len(coordinator.join_handles), ok \in BOOLEAN :
          SubUploadFinishes(i, ok)
    /\ UNCHANGED <<App, take, nokhwa>>
Insert ==
    /\ \E ok \in BOOLEAN : InsertTake(ok)
    /\ UNCHANGED <<App, take, nokhwa>>

NextUpload ==
    \/ Token
    \/ Folder
    \/ SubUpload
    \/ Join
    \/ Insert

SpecUpload == InitUpload /\ [][NextUpload]_vars

Failed == {i \in 1..Len(coordinator.join_handles) : coordinator.join_handles[i] = "failed"}

----------------------------------------------------------------------------
(***************************************************************************)
(* One call of render_take, seen from inside.  An image is its width and   *)
(* height.  The template is an asset compiled into the program; its size   *)
(* is an input here, large enough for the four slots.                      *)
(***************************************************************************)
MaxPhotos == 5

PhotoSizes == {<<3000, 2000>>, <<1920, 1080>>}
TemplateSizes == {<<2268, 6000>>, <<2269, 6001>>, <<2270, 5999>>}

SLOT_X == 134
SLOT_Y == 134
SLOT_STRIDE == 1466
SLOT_WIDTH == 2000
SLOT_HEIGHT == 1333
STRIP_DIVISOR == 3

(* image::imageops::resize(image, w, h, filter): an image of w by h. *)
resize(image, w, h) == <<w, h>>

(* Variant whose slots follow each other at the height of a photograph     *)
(* less a margin.                                                          *)
Slot_Overlapping(i, photo) ==
    [x |-> SLOT_X, y |-> SLOT_Y + i * (SLOT_HEIGHT - SLOT_Y),
     size |-> resize(photo, SLOT_WIDTH, SLOT_HEIGHT)]

(* The place of photograph i (from 0) on the template and its size there. *)
Slot(i, photo) ==
    [x |-> SLOT_X, y |-> SLOT_Y + i * SLOT_STRIDE,
     size |-> resize(photo, SLOT_WIDTH, SLOT_HEIGHT)]

(* GenericImage::copy_from: the copy must lie within the target. *)
copy_from_ok(target, slot) ==
    /\ slot.x + slot.size[1] <= target[1]
    /\ slot.y + slot.size[2] <= target[2]

(* The body of render_take on a template of the given size. *)
render_take_on(template, photos) ==
    IF ~render_take_ok(photos) THEN <<"panic", "Expected 4 photos">>
    ELSE LET slots == [k \in 1..Len(photos) |-> Slot(k - 1, photos[k])] IN
         IF \E k \in 1..Len(photos) : ~copy_from_ok(template, slots[k])
         THEN <<"panic", "copy_from">>
         ELSE <<"strip", slots,
                resize(template, template[1] \div STRIP_DIVISOR,
                                 template[2] \div STRIP_DIVISOR)>>

RECURSIVE SeqsUpTo(_, _)
SeqsUpTo(S, n) ==
    IF n = 0 THEN {<<>>}
    ELSE LET shorter == SeqsUpTo(S, n - 1) IN
         shorter \cup {Append(q, x) : q \in shorter, x \in S}

InitRender ==
    /\ InitApp
    /\ coordinator = NoUpload
    /\ nokhwa = NewNokhwaCamera
    /\ take \in {[template |-> t, photos |-> ph, out |-> <<"none">>, again |-> <<"none">>] :
                    t \in TemplateSizes, ph \in SeqsUpTo(PhotoSizes, MaxPhotos)}

(* render_take(photos). *)
RenderTake ==
    /\ take.out = <<"none">>
    /\ take' = [take EXCEPT !.out = render_take_on(take.template, take.photos)]
    /\ UNCHANGED <<App, coordinator, nokhwa>>

(* A second call with the same photographs. *)
RenderTakeAgain ==
    /\ take.out # <<"none">>
    /\ take.again = <<"none">>
    /\ take' = [take EXCEPT !.again = render_take_on(take.template, take.photos)]
    /\ UNCHANGED <<App, coordinator, nokhwa>>

NextRender ==
    \/ RenderTake
    \/ RenderTakeAgain

SpecRender == InitRender /\ [][NextRender]_vars

----------------------------------------------------------------------------
(***************************************************************************)
(* NokhwaCamera, seen from inside.  A call opens the stream of its kind if *)
(* it is not open, after dropping the stream of the other kind, and then   *)
(* takes a frame.  outcome names the operation of the call that returned   *)
(* an error ("new", "open_stream", "frame", "decode_image"), or is "ok".   *)
(* A call returns the camera as it leaves it and its result.               *)
(***************************************************************************)
MaxCalls == 3

OpenOutcomes == {"new", "open_stream", "frame", "decode_image", "ok"}
FrameOutcomes == {"frame", "decode_image", "ok"}

(* Variant that opens the video stream without dropping the still stream.  *)
capture_video_frame_KeepsStill(cam, outcome) ==
    IF cam.video_camera = None
    THEN IF outcome \in {"new", "open_stream"} THEN <<cam, "Err">>
         ELSE <<[cam EXCEPT !.video_camera = Some("AbsoluteHighestFrameRate")],
                IF outcome = "ok" THEN "Ok" ELSE "Err">>
    ELSE <<cam, IF outcome = "ok" THEN "Ok" ELSE "Err">>

capture_still_frame(cam, outcome) ==
    IF cam.still_camera = None
    THEN LET dropped == [cam EXCEPT !.video_camera = None] IN
         IF outcome \in {"new", "open_stream"} THEN <<dropped, "Err">>
         ELSE <<[dropped EXCEPT !.still_camera = Some("AbsoluteHighestResolution")],
                IF outcome = "ok" THEN "Ok" ELSE "Err">>
    ELSE <<cam, IF outcome = "ok" THEN "Ok" ELSE "Err">>

capture_video_frame(cam, outcome) ==
    IF cam.video_camera = None
    THEN LET dropped == [cam EXCEPT !.still_camera = None] IN
         IF outcome \in {"new", "open_stream"} THEN <<dropped, "Err">>
         ELSE <<[dropped EXCEPT !.video_camera = Some("AbsoluteHighestFrameRate")],
                IF outcome = "ok" THEN "Ok" ELSE "Err">>
    ELSE <<cam, IF outcome = "ok" THEN "Ok" ELSE "Err">>

(* The outcomes a call can have: a stream that is open is not opened again. *)
Outcomes(stream) == IF stream = None THEN OpenOutcomes ELSE FrameOutcomes

(* A call of capture_still_frame on the camera. *)
CaptureStillFrame ==
    /\ Len(nokhwa.calls) < MaxCalls
    /\ \E outcome \in Outcomes(nokhwa.still_camera) :
          LET r == capture_still_frame(nokhwa, outcome) IN
          nokhwa' = [r[1] EXCEPT !.calls = Append(nokhwa.calls, <<"still", outcome, r[2]>>)]
    /\ UNCHANGED <<App, coordinator, take>>

(* A call of capture_video_frame on the camera. *)
CaptureVideoFrame ==
    /\ Len(nokhwa.calls) < MaxCalls
    /\ \E outcome \in Outcomes(nokhwa.video_camera) :
          LET r == capture_video_frame(nokhwa, outcome) IN
          nokhwa' = [r[1] EXCEPT !.calls = Append(nokhwa.calls, <<"video", outcome, r[2]>>)]
    /\ UNCHANGED <<App, coordinator, take>>

NextNokhwa ==
    \/ CaptureStillFrame
    \/ CaptureVideoFrame

SpecNokhwa == Init /\ [][NextNokhwa]_vars

----------------------------------------------------------------------------
(* update called with a message nothing in flight accounts for: a          *)
(* duplicate or late completion, or input for a view no longer shown.      *)
Stray ==
    /\ strays < MaxStrays
    /\ strays' = strays + 1
    /\ UNCHANGED <<capDelivered, uploadDone, emailDone>>
    /\ Account

StrayCaptureStillLock ==
    /\ strays < MaxStrays
    /\ StillLock
    /\ UNCHANGED <<Delivered, cycleUploads>>
StrayCaptureStill ==
    /\ \E ok \in BOOLEAN : OnCaptureStill(ok)
    /\ Stray
StrayUploaded ==
    /\ \E result \in {<<"Ok", i>> : i \in 0..Len(uploadLog)} \cup {<<"Err">>} :
          OnUploaded(result)
    /\ Stray
StrayEmailed ==
    /\ \E result \in {<<"Ok", TRUE>>, <<"Ok", FALSE>>, <<"Err">>} : OnEmailed(result)
    /\ Stray
StrayEmailInput ==
    /\ state.tag # "EmailEntry"
    /\ \E email \in Addresses : OnEmailInput(email)
    /\ Stray
StrayEmailSubmit ==
    /\ state.tag # "EmailEntry"
    /\ OnEmailSubmit
    /\ Stray
OtherKeyPress ==
    /\ OnOtherKeyPress
    /\ Stray

(* The session messages of the event loop, and stray ones. *)
NextAnyMessage ==
    \/ Tick
    \/ KeyReleased
    \/ CaptureStillLock
    \/ CaptureStill
    \/ Uploaded
    \/ Emailed
    \/ EmailInput
    \/ EmailSubmit
    \/ StrayCaptureStillLock
    \/ StrayCaptureStill
    \/ StrayUploaded
    \/ StrayEmailed
    \/ StrayEmailInput
    \/ StrayEmailSubmit
    \/ OtherKeyPress

(* update never reads the backend's answer, so the runs with stray         *)
(* messages are taken with one answer.                                     *)
InitAnyMessage == Init /\ paid_is_unlocked

SpecAnyMessage == InitAnyMessage /\ [][NextAnyMessage]_vars

(* The session messages of the event loop, and Emailed completions that    *)
(* no send_email in flight accounts for.                                   *)
NextStrayEmailed ==
    \/ Tick
    \/ KeyReleased
    \/ CaptureStillLock
    \/ CaptureStill
    \/ Uploaded
    \/ Emailed
    \/ EmailInput
    \/ EmailSubmit
    \/ StrayEmailed

SpecStrayEmailed == InitAnyMessage /\ [][NextStrayEmailed]_vars

(***************************************************************************)
(* Ticks keep arriving and every timeline that was started completes: the  *)
(* Tick whose timelines have run their duration is handled whenever it     *)
(* stays due.  With the scheduling of FairSpec this is what the program    *)
(* does by itself, without input of the visitor.                           *)
(***************************************************************************)
TickElapsed ==
    /\ OnTick(TRUE, TRUE)
    /\ UNCHANGED Delivered
    /\ Account

(* The messages of the capture ritual and of what surrounds it: the keys   *)
(* that lead to it, the Ticks, the stills, the completion of the upload    *)
(* it ends with, and the live-preview loop that shares the camera.         *)
NextRitual ==
    \/ Tick
    \/ KeyReleased
    \/ CaptureStillLock
    \/ CaptureStill
    \/ Uploaded
    \/ CameraCaptureFrame
    \/ CameraWorkerLock
    \/ CameraWorker
    \/ CameraNewFrame

LiveSpec ==
    /\ InitAnyMessage
    /\ [][NextRitual]_vars
    /\ WF_vars(CameraWorkerLock)
    /\ WF_vars(CameraWorker)
    /\ SF_vars(CaptureStillLock)
    /\ WF_vars(CaptureStill)
    /\ WF_vars(TickElapsed)

(* The same scheduling with every message of the event loop.               *)
LiveSpecAll == FairSpec /\ WF_vars(TickElapsed)

----------------------------------------------------------------------------
(* Properties. *)

(* A step that is a call of update with a message of the given type: every *)
(* action but the camera worker is one, and records its message.           *)
WorkerStep ==
    \/ camLoop \in {"worker", "locked"} /\ camLoop' # camLoop
    \/ "still" \in camera' /\ "still" \notin camera
Call(type) == ~WorkerStep /\ msg'[1] = type

LastShotPreview ==
    /\ state.tag = "CapturePhotos"
    /\ state.state.tag = "Preview"
    /\ state.current + 1 = PHOTO_COUNT

UploadsInFlight == (1..Len(uploadLog)) \ uploadDone
CapturesInFlight == capIssued - capDelivered

(* C1: whenever the controller is in the last shot's Preview sub-state,    *)
(* the state from which a Tick composes the strip, captured_photos holds   *)
(* exactly 4 photographs, and the assertion of render_take has never       *)
(* failed.                                                                 *)
C1_FourPhotosAtCompose ==
    /\ panic # "Expected 4 photos"
    /\ LastShotPreview => Len(captured_photos) = 4

(* The strip of a second sequence has been composed. *)
C1_Witness ==
    /\ state.tag = "RenderedPreview"
    /\ task = "upload_photo"
    /\ Len(uploadLog) = 2
    /\ Len(previews) = 4

(* C2: a CaptureStill request is issued by exactly the Tick steps that     *)
(* move Capturing(k, Countdown) to Capturing(k, Capture), one at a time,   *)
(* so that the requests issued count one per shot begun and 4 per          *)
(* sequence composed.                                                      *)
C2_RequestsPerShot ==
    capIssued = PHOTO_COUNT * Len(uploadLog)
                + (IF state.tag = "CapturePhotos"
                   THEN state.current + (IF state.state.tag = "Countdown" THEN 0 ELSE 1)
                   ELSE 0)
C2_CountdownToFlash ==
    /\ state.tag = "CapturePhotos" /\ state.state.tag = "Countdown"
    /\ state'.tag = "CapturePhotos" /\ state'.state.tag = "Capture"
    /\ state'.current = state.current
C2_OneCapturePerShot ==
    /\ []C2_RequestsPerShot
    /\ [][ /\ capIssued' # capIssued =>
                Call("Tick") /\ C2_CountdownToFlash /\ capIssued' = capIssued + 1
           /\ ~WorkerStep => (task' = "CaptureStill" <=> capIssued' # capIssued)
           /\ C2_CountdownToFlash => task' = "CaptureStill" ]_vars

(* A full sequence has been composed, after 4 requests. *)
C2_Witness ==
    /\ state.tag = "RenderedPreview"
    /\ capIssued = 4
    /\ capDelivered = 4

(* C3: an upload is issued only by the Tick that leaves the last shot's    *)
(* Preview for RenderedPreview, and at most one is issued between two      *)
(* visits of PaymentRequired.                                              *)
C3_OneUploadPerCycle ==
    /\ [](cycleUploads <= 1)
    /\ [][ /\ uploadLog' # uploadLog =>
                /\ Call("Tick")
                /\ LastShotPreview
                /\ state'.tag = "RenderedPreview"
                /\ Len(uploadLog') = Len(uploadLog) + 1
           /\ ~WorkerStep => (task' = "upload_photo" <=> uploadLog' # uploadLog) ]_vars

(* An upload has failed, and the controller is back in PaymentRequired     *)
(* with the one upload of the cycle made.                                  *)
C3_Witness ==
    /\ state = PaymentRequired(Some(UploadErrorText))
    /\ msg = <<"Uploaded", <<"Err">>>>
    /\ cycleUploads = 1

(* C4: at most one CaptureStill request and at most one upload is          *)
(* outstanding at any time.                                                *)
C4_OneInFlight ==
    /\ CapturesInFlight \in {0, 1}
    /\ Cardinality(UploadsInFlight) <= 1

(* The upload of a second sequence is outstanding, the first is done. *)
C4_Witness ==
    /\ UploadsInFlight = {2}
    /\ state.tag = "EmailEntry"

CurrentUploadSucceeded ==
    /\ Len(uploadLog) \in uploadDone
    /\ upload_handle = Some(Len(uploadLog))

(* C5, as claimed: the controller is in EmailEntry only after the          *)
(* Uploaded(Ok) completion of the current sequence has been handled.       *)
C5_DistributionAfterUpload ==
    state.tag = "EmailEntry" => CurrentUploadSucceeded

(* C5, amended: EmailEntry is entered by the Tick that finds the timelines *)
(* of RenderedPreview completed, whatever the upload has done; but an      *)
(* EmailSubmit in EmailEntry changes something only after the Uploaded(Ok) *)
(* completion of the current sequence has been handled.                    *)
C5_SubmitAfterUpload ==
    [][ /\ (state'.tag = "EmailEntry" /\ state.tag # "EmailEntry") =>
                Call("Tick") /\ state.tag = "RenderedPreview"
        /\ ( /\ Call("EmailSubmit")
             /\ state.tag = "EmailEntry"
             /\ (state' # state \/ emails' # emails \/ task' # "none") ) =>
                CurrentUploadSucceeded ]_vars

(* A submit has left EmailEntry for Emailing. *)
C5_Witness ==
    /\ state.tag = "Emailing"
    /\ msg = <<"EmailSubmit">>
    /\ Len(uploadLog) \in uploadDone

(* C6: handling Uploaded(Err) moves to PaymentRequired with the upload     *)
(* error and leaves upload_handle None; while upload_handle is None an     *)
(* EmailSubmit issues no send_email, and upload_handle becomes Some only   *)
(* by the Uploaded(Ok) of the latest upload.                               *)
C6_UploadFailure ==
    [][ /\ (Call("Uploaded") /\ msg'[2] = <<"Err">>) =>
                /\ state' = PaymentRequired(Some(UploadErrorText))
                /\ upload_handle' = None
        /\ (Call("EmailSubmit") /\ upload_handle = None) =>
                task' = "none" /\ emailLog' = emailLog
        /\ (upload_handle = None /\ upload_handle' # None) =>
                Call("Uploaded") /\ msg'[2] = <<"Ok", Len(uploadLog)>> ]_vars

(* The upload of a sequence has failed. *)
C6_Witness ==
    /\ msg = <<"Uploaded", <<"Err">>>>
    /\ state.tag = "PaymentRequired"
    /\ state.error # None
    /\ upload_handle = None
    /\ strip # None

(* C7: send_email is issued only with an upload handle, which it takes:    *)
(* upload_handle is None throughout Emailing and no handle is dispatched   *)
(* twice; an EmailSubmit without a handle issues nothing and leaves phase, *)
(* recipients and handle as they are.                                      *)
C7_DispatchConsumesHandle ==
    /\ [](state.tag = "Emailing" => upload_handle = None)
    /\ [](\A i, j \in 1..Len(emailLog) :
              i # j => emailLog[i].handle # emailLog[j].handle)
    /\ [][ /\ emailLog' # emailLog =>
                /\ upload_handle # None
                /\ upload_handle' = None
                /\ Len(emailLog') = Len(emailLog) + 1
                /\ emailLog'[Len(emailLog')].handle = upload_handle[1]
           /\ ~WorkerStep => (task' = "send_email" <=> emailLog' # emailLog)
           /\ (Call("EmailSubmit") /\ upload_handle = None) =>
                task' = "none" /\ UNCHANGED <<state, emails, upload_handle>> ]_vars

(* The handle of a second sequence has been dispatched. *)
C7_Witness ==
    /\ state.tag = "Emailing"
    /\ task = "send_email"
    /\ Len(emailLog) = 2

(* C8, as claimed: a CaptureStill handled in CapturePhotos while no        *)
(* capture is awaited leaves the sub-state, the shot counter and the       *)
(* captured photographs unchanged.                                         *)
C8_StrayCaptureInCapturing ==
    [][ ( /\ Call("CaptureStill")
          /\ state.tag = "CapturePhotos"
          /\ state.state # Capture(to_timeline)
          /\ panic' = "none" ) =>
            UNCHANGED <<state, captured_photos>> ]_vars

(* C9, as claimed: a CaptureStill handled outside CapturePhotos leaves the *)
(* phase and the captured photographs unchanged, and render_take never     *)
(* finds a count other than 4.                                             *)
C9_StrayCaptureOutsideCapturing ==
    /\ [](panic # "Expected 4 photos")
    /\ [][ ( /\ Call("CaptureStill")
             /\ state.tag # "CapturePhotos"
             /\ panic' = "none" ) =>
               UNCHANGED <<state, captured_photos>> ]_vars

(* C10, as claimed: an Uploaded handled outside RenderedPreview, the phase  *)
(* that requested the upload, is ignored: it changes neither the phase and *)
(* its error, nor upload_handle, nor the QR data.  The Uploaded arm has no *)
(* phase check, so a late or duplicate completion acts in every phase.     *)
C10_UploadedIgnoredOutsideUploading ==
    [][ (Call("Uploaded") /\ state.tag # "RenderedPreview") =>
            UNCHANGED <<state, upload_handle, qr_code_data>> ]_vars

(***************************************************************************)
(* C11.  A still capture that fails with a device error is handled: the    *)
(* call that meets the failure returns without a fault, in PaymentRequired *)
(* with an error, with the photographs taken so far discarded and no       *)
(* upload started.  A CaptureStill call that takes no photograph although  *)
(* the camera mutex is sound is a call whose capture failed.               *)
(***************************************************************************)
C11_CaptureFailureHandled ==
    [][(Call("CaptureStill") /\ ~poisoned /\ stills' = stills)
          => /\ panic' = "none"
             /\ state'.tag = "PaymentRequired"
             /\ state'.error # None
             /\ captured_photos' = <<>>
             /\ uploadLog' = uploadLog]_vars

(***************************************************************************)
(* The position of a phase in the order of the session: PaymentRequired,   *)
(* Preview, CapturePhotosPrepare, the shots of CapturePhotos in turn (each *)
(* with Countdown, Capture, Preview), RenderedPreview, EmailEntry,         *)
(* Emailing.                                                               *)
(***************************************************************************)
SubRank(st) ==
    CASE st.tag = "Countdown" -> 0
      [] st.tag = "Capture"   -> 1
      [] st.tag = "Preview"   -> 2

Rank(s) ==
    CASE s.tag = "PaymentRequired"      -> 0
      [] s.tag = "Preview"              -> 1
      [] s.tag = "CapturePhotosPrepare" -> 2
      [] s.tag = "CapturePhotos"        -> 3 + 3 * s.current + SubRank(s.state)
      [] s.tag = "RenderedPreview"      -> 3 + 3 * PHOTO_COUNT
      [] s.tag = "EmailEntry"           -> 4 + 3 * PHOTO_COUNT
      [] s.tag = "Emailing"             -> 5 + 3 * PHOTO_COUNT

(***************************************************************************)
(* C12.  Every step that changes the position of the controller moves it   *)
(* to a strictly later position of the order or to PaymentRequired; the    *)
(* shots of CapturePhotos are numbered 0 .. PHOTO_COUNT - 1.               *)
(***************************************************************************)
C12_ForwardOrGated ==
    /\ [](state.tag = "CapturePhotos" => state.current \in 0..(PHOTO_COUNT - 1))
    /\ [][Rank(state') # Rank(state)
            => \/ Rank(state') > Rank(state)
               \/ state'.tag = "PaymentRequired"]_vars

(* A second session is under way after the first one went through every   *)
(* phase and returned from Emailing.                                       *)
C12_Witness ==
    /\ state.tag = "CapturePhotos"
    /\ state.current = 1
    /\ emailDone # {}

(***************************************************************************)
(* C13.  Whenever the controller is in PaymentRequired the session data is *)
(* reset: no captured photographs, no strip, no upload handle (so no link  *)
(* or QR data), and no pending recipient addresses.                        *)
(***************************************************************************)
C13_GatedIsReset ==
    state.tag = "PaymentRequired"
        => /\ captured_photos = <<>>
           /\ strip = None
           /\ upload_handle = None
           /\ qr_code_data = None
           /\ emails = <<>>

(***************************************************************************)
(* C14.  From PaymentRequired the confirm key moves to Preview only when   *)
(* the backend's eligibility check succeeds; when the check fails the      *)
(* controller stays in PaymentRequired with an error; Up and Down change   *)
(* nothing.                                                                *)
(***************************************************************************)
C14_ConfirmNeedsEligibility ==
    [][(Call("KeyReleased") /\ state.tag = "PaymentRequired")
          => /\ (msg'[2] = "Space" /\ ~paid_is_unlocked)
                    => (state'.tag = "PaymentRequired" /\ state'.error # None)
             /\ state'.tag = "Preview" => (msg'[2] = "Space" /\ paid_is_unlocked)
             /\ msg'[2] \in {"Up", "Down"}
                    => (state' = state /\ UNCHANGED Session)]_vars

(***************************************************************************)
(* C15.  In EmailEntry with an upload handle, EmailSubmit with the input   *)
(* empty and no recipient added goes straight to PaymentRequired with no   *)
(* error: Emailing is not entered and send_email is not called.            *)
(***************************************************************************)
C15_NoRecipientsToGated ==
    [][(Call("EmailSubmit") /\ state.tag = "EmailEntry"
            /\ upload_handle # None /\ emails = <<"">>)
          => /\ state' = PaymentRequired(None)
             /\ task' = "none"
             /\ emailLog' = emailLog
             /\ panic' = "none"]_vars

(* The submit without recipients has just been handled: the upload had    *)
(* completed, nothing was sent.                                            *)
C15_Witness ==
    /\ msg = <<"EmailSubmit">>
    /\ state = PaymentRequired(None)
    /\ upload_handle # None
    /\ emailLog = <<>>
    /\ emails = <<>>

(***************************************************************************)
(* C16.  In EmailEntry with an upload handle, EmailSubmit with the input   *)
(* empty and at least one recipient added calls send_email exactly once,   *)
(* with the handle and with exactly the addresses added before (the        *)
(* entries of emails after the input slot, none of them empty), enters     *)
(* Emailing and clears emails.  While EmailEntry lasts, the addresses      *)
(* after the input slot change only by a submit that puts the typed        *)
(* address in front of them, so none is lost before the dispatch.          *)
(***************************************************************************)
C16_DispatchToAddedRecipients ==
    /\ [][(Call("EmailSubmit") /\ state.tag = "EmailEntry" /\ upload_handle # None
              /\ emails # <<>> /\ emails[1] = "" /\ Tail(emails) # <<>>)
            => /\ task' = "send_email"
               /\ emailLog' = Append(emailLog, [handle |-> upload_handle[1],
                                                emails |-> Tail(emails)])
               /\ \A i \in 1..Len(Tail(emails)) : Tail(emails)[i] # ""
               /\ state'.tag = "Emailing"
               /\ emails' = <<>>]_vars
    /\ [][(state.tag = "EmailEntry" /\ state'.tag = "EmailEntry")
            => /\ emails # <<>> /\ emails' # <<>>
               /\ \/ Tail(emails') = Tail(emails)
                  \/ /\ Call("EmailSubmit")
                     /\ emails[1] # ""
                     /\ emails' = <<"">> \o emails]_vars

(* Two addresses were added and the empty submit has dispatched both.      *)
C16_Witness ==
    /\ msg = <<"EmailSubmit">>
    /\ state.tag = "Emailing"
    /\ task = "send_email"
    /\ Len(emailLog) = 1
    /\ Len(emailLog[1].emails) = 2
    /\ emails = <<>>

(***************************************************************************)
(* C17.  In Emailing every Emailed completion moves to PaymentRequired:    *)
(* Emailed(Ok(true)), a dispatch that reached every address, leaves the    *)
(* error clear and Emailed(Err) sets it; no other step leaves Emailing.    *)
(***************************************************************************)
C17_EmailedLeavesNotifying ==
    /\ [][(Call("Emailed") /\ state.tag = "Emailing")
            => /\ state'.tag = "PaymentRequired"
               /\ msg'[2] = <<"Ok", TRUE>> => state'.error = None
               /\ msg'[2] = <<"Err">> => state'.error = Some(EmailErrorText)
               /\ panic' = "none"]_vars
    /\ [][(state.tag = "Emailing" /\ state'.tag # "Emailing")
            => Call("Emailed")]_vars

(* A failed dispatch has just brought the controller back with the error.  *)
C17_Witness ==
    /\ msg = <<"Emailed", <<"Err">>>>
    /\ state = PaymentRequired(Some(EmailErrorText))
    /\ emailDone # {}

(***************************************************************************)
(* The changes of variant that update makes: the path of a session and the *)
(* returns to PaymentRequired.                                             *)
(***************************************************************************)
PhaseEdges ==
    { <<"PaymentRequired", "Preview">>,
      <<"Preview", "CapturePhotosPrepare">>,
      <<"CapturePhotosPrepare", "CapturePhotos">>,
      <<"CapturePhotos", "RenderedPreview">>,
      <<"RenderedPreview", "EmailEntry">>,
      <<"EmailEntry", "Emailing">>,
      <<"Emailing", "PaymentRequired">>,
      <<"RenderedPreview", "PaymentRequired">>,
      <<"EmailEntry", "PaymentRequired">> }

(***************************************************************************)
(* C18.  The happy path is the only way round and ends clean: the variant  *)
(* changes only along PaymentRequired, Preview, CapturePhotosPrepare,      *)
(* CapturePhotos, RenderedPreview, EmailEntry, Emailing, PaymentRequired   *)
(* (or returns to PaymentRequired early), and once Emailed(Ok(true)) has   *)
(* been handled the controller is in PaymentRequired with no error, after  *)
(* a dispatch to at least one recipient with the handle of a completed     *)
(* upload of four photographs whose QR data was produced.  The witness is  *)
(* the end of such a run with one recipient.                               *)
(***************************************************************************)
C18_HappyPathEndsClean ==
    /\ [][state'.tag # state.tag => <<state.tag, state'.tag>> \in PhaseEdges]_vars
    /\ [](msg = <<"Emailed", <<"Ok", TRUE>>>>
            => /\ state = PaymentRequired(None)
               /\ qr_code_data # None
               /\ emailDone # {}
               /\ \A i \in 1..Len(emailLog) :
                     /\ emailLog[i].emails # <<>>
                     /\ emailLog[i].handle \in uploadDone
                     /\ Len(uploadLog[emailLog[i].handle].photos) = PHOTO_COUNT)

(* The first session ran the whole path with one recipient and ended with  *)
(* Emailed(Ok(true)).                                                      *)
C18_Witness ==
    /\ msg = <<"Emailed", <<"Ok", TRUE>>>>
    /\ state = PaymentRequired(None)
    /\ stills = PHOTO_COUNT
    /\ Len(uploadLog) = 1
    /\ uploadDone = {1}
    /\ qr_code_data = Some(QrData(get_link(1)))
    /\ Len(emailLog) = 1
    /\ emailLog[1].handle = 1
    /\ Len(emailLog[1].emails) = 1
    /\ emailDone = {1}
    /\ panic = "none"

(***************************************************************************)
(* C19.  In Preview only the confirm key (Space) moves the controller to   *)
(* CapturePhotosPrepare; Up and Down leave the phase unchanged (an Escape  *)
(* release never reaches update, see Keys).                                *)
(***************************************************************************)
C19_OnlyConfirmStartsCapture ==
    [][(Call("KeyReleased") /\ state.tag = "Preview")
          => IF msg'[2] = "Space"
             THEN state'.tag = "CapturePhotosPrepare"
             ELSE state' = state]_vars

InCountdown(s) == s.tag = "CapturePhotos" /\ s.state.tag = "Countdown"

(***************************************************************************)
(* C20.  The countdown counter and the shot counter are independent.       *)
(* CapturePhotos is entered at shot 0 in Countdown; every entry into       *)
(* Countdown starts the count at COUNTDOWN_START; a step within Countdown  *)
(* keeps the count or lowers it by one and keeps the shot counter; the     *)
(* shot counter changes only when a shot's Preview completes and the next  *)
(* Countdown starts, by exactly one, and is never reset while              *)
(* CapturePhotos lasts.                                                    *)
(***************************************************************************)
C20_CountersIndependent ==
    [][state'.tag = "CapturePhotos"
          => /\ state.tag # "CapturePhotos" => (state'.current = 0 /\ InCountdown(state'))
             /\ (InCountdown(state') /\ ~InCountdown(state))
                    => state'.state.current = COUNTDOWN_START
             /\ state.tag = "CapturePhotos"
                    => IF state.state.tag = "Preview" /\ state'.state.tag = "Countdown"
                       THEN state'.current = state.current + 1
                       ELSE state'.current = state.current
             /\ (InCountdown(state) /\ InCountdown(state'))
                    => state'.state.current \in
                           {state.state.current, state.state.current - 1}]_vars

(* The third shot's countdown has come down to 1 with the shot counter     *)
(* still at 2.                                                             *)
C20_Witness ==
    /\ InCountdown(state)
    /\ state.current = 2
    /\ state.state.current = 1
    /\ Len(captured_photos) = 2

(* The timelines a variant holds. *)
Timelines(s) ==
    CASE s.tag = "CapturePhotosPrepare" -> {s.ready_timeline}
      [] s.tag = "CapturePhotos" ->
            (CASE s.state.tag = "Countdown" -> {s.state.countdown_timeline}
               [] s.state.tag = "Capture"   -> {s.state.capture_timeline}
               [] s.state.tag = "Preview"   -> {s.state.preview_timeline})
      [] s.tag = "RenderedPreview" ->
            {s.progress_timeline, s.template_preview_timeline}
      [] s.tag = "Emailing" -> {s.progress_timeline}
      [] OTHER -> {}

(***************************************************************************)
(* C21.  One Tick makes at most one advance: the position moves by at most *)
(* one place of the order (next variant, next sub-state or next shot), a   *)
(* countdown that stays in place loses at most one count, and a Tick that  *)
(* advanced leaves no completed timeline behind, so the completion that    *)
(* fired cannot fire again.                                                *)
(***************************************************************************)
C21_OneAdvancePerTick ==
    [][Call("Tick")
          => /\ Rank(state') \in {Rank(state), Rank(state) + 1}
             /\ (InCountdown(state) /\ InCountdown(state')
                     /\ Rank(state') = Rank(state))
                    => state'.state.current \in
                           {state.state.current, state.state.current - 1}
             /\ Rank(state') # Rank(state) => "completed" \in
                    {TimelineUpdate(tl, TRUE) : tl \in Timelines(state)}
             /\ (Rank(state') # Rank(state)
                     \/ (InCountdown(state) /\ InCountdown(state')
                            /\ state'.state.current # state.state.current))
                    => "completed" \notin Timelines(state')]_vars

(* A Tick has just lowered the countdown of the second shot from 3 to 2    *)
(* and started the next countdown timeline.                                *)
C21_Witness ==
    /\ msg = <<"Tick">>
    /\ InCountdown(state)
    /\ state.current = 1
    /\ state.state.current = 2
    /\ state.state.countdown_timeline = begin_animation

(***************************************************************************)
(* C22 as claimed.  After every call of update the stored feed options are *)
(* those of the phase the controller is now in.                            *)
(***************************************************************************)
C22_OptionsMatchPhase ==
    msg # <<"none">> => options = OptionsFor(state)

(***************************************************************************)
(* C22.  Every call of update stores the options of the phase it finds,    *)
(* before it handles the message: after the call the options are those of  *)
(* the phase the controller was in when the message arrived, so they       *)
(* differ from the current phase's only after a call that changed the      *)
(* phase family, and only until the next call.  The camera messages, whose *)
(* CaptureFrame arm is the one place that reads the options, leave the     *)
(* phase alone, so what is read is always the current phase's options.     *)
(***************************************************************************)
C22_OptionsOfPhaseFound ==
    [][~WorkerStep
          => /\ options' = OptionsFor(state)
             /\ IsCaptureFamily(state') = IsCaptureFamily(state)
                    => options' = OptionsFor(state')
             /\ Call("Camera") => (state' = state /\ options' = OptionsFor(state'))]_vars

(* The confirm key has just moved the controller to Preview and the        *)
(* options are still those of PaymentRequired.                             *)
C22_Witness ==
    /\ msg = <<"KeyReleased", "Space">>
    /\ state.tag = "Preview"
    /\ options = OtherOptions

(***************************************************************************)
(* C23.  A still capture runs on a worker apart from the event loop: while *)
(* the capture holds the camera the loop can handle a Tick, and the frame  *)
(* is taken by a step that is not a call of update, whose result a later   *)
(* call brings in.                                                         *)
(***************************************************************************)
C23_CaptureOffLoop ==
    /\ []("still" \in camera => ENABLED Tick)
    /\ [][stills' # stills => WorkerStep]_vars

(***************************************************************************)
(* C24.  The camera is never used by two operations at once: the video     *)
(* frame of the blocking worker and the still of update never hold the     *)
(* guard together.  Nobody waits for ever: a worker that waits for the     *)
(* camera gets it unless the program has panicked, and a CaptureStill in   *)
(* flight gets it unless the program has panicked, the mutex is poisoned,  *)
(* or the model's bound on stills is reached.                              *)
(***************************************************************************)
C24_CameraExclusive ==
    /\ [](Cardinality(camera) <= 1)
    /\ (camLoop = "worker")
          ~> (camLoop = "locked" \/ panic # "none")
    /\ (CapturesInFlight > 0 /\ ~poisoned)
          ~> ("still" \in camera \/ poisoned \/ panic # "none"
                 \/ stills = MaxStills)

(* The worker waits for the camera while a still capture holds it.         *)
C24_Witness ==
    /\ camera = {"still"}
    /\ camLoop = "worker"
    /\ panic = "none"

(***************************************************************************)
(* C25.  An upload returns Ok only if every sub-upload succeeded; once a   *)
(* sub-upload has failed the upload never returns Ok, the step that comes  *)
(* after the sub-uploads (the insert-take request) is never made, and the  *)
(* result of the finished upload is Err.                                   *)
(***************************************************************************)
C25_AllOrNothing ==
    /\ coordinator.result = "Ok"
          => \A i \in 1..Len(coordinator.join_handles) :
                coordinator.join_handles[i] = "ok"
    /\ Failed # {} => (coordinator.result # "Ok" /\ ~coordinator.inserted)
    /\ (Failed # {} /\ coordinator.stage = "done") => coordinator.result = "Err"

(* The third photograph's upload failed after two had succeeded, and       *)
(* upload_photos has returned Err without the insert-take request.         *)
C25_Witness ==
    /\ coordinator.backend = "supabase"
    /\ coordinator.stage = "done"
    /\ coordinator.result = "Err"
    /\ coordinator.next = 3
    /\ coordinator.join_handles[3] = "failed"
    /\ ~coordinator.inserted

(***************************************************************************)
(* C26.  upload_photos fails fast: once a sub-upload has failed, the       *)
(* coordinator does not wait for a sub-upload that is still running,       *)
(* whichever of them failed first.                                         *)
(***************************************************************************)
C26_FailFast ==
    (coordinator.backend = "supabase" /\ coordinator.stage = "joining"
        /\ Failed # {})
        => coordinator.join_handles[coordinator.next] # "running"

(***************************************************************************)
(* C27.  EmailInput and EmailSubmit handled in a phase other than          *)
(* EmailEntry are no-ops: no send_email is issued, the phase does not      *)
(* change, and the call does not fault.                                    *)
(***************************************************************************)
C27_EmailMessagesOutsideEntry ==
    [][((Call("EmailInput") \/ Call("EmailSubmit")) /\ state.tag # "EmailEntry")
          => /\ state' = state
             /\ task' # "send_email"
             /\ emailLog' = emailLog
             /\ panic' = "none"]_vars

(***************************************************************************)
(* C28.  An Emailed message handled in a phase other than Emailing leaves  *)
(* the phase with its error and every field of the session unchanged; it   *)
(* starts nothing and does not fault.                                      *)
(***************************************************************************)
C28_EmailedOutsideNotifying ==
    [][(Call("Emailed") /\ state.tag # "Emailing")
          => /\ state' = state
             /\ UNCHANGED Session
             /\ UNCHANGED Requests
             /\ task' = "none"
             /\ panic' = "none"]_vars

(* An Emailed(Err) that no dispatch accounts for has been handled in       *)
(* EmailEntry with a recipient added and the upload complete.              *)
C28_Witness ==
    /\ msg = <<"Emailed", <<"Err">>>>
    /\ strays = 1
    /\ state.tag = "EmailEntry"
    /\ Len(emails) = 2
    /\ upload_handle # None
    /\ emailLog = <<>>

(***************************************************************************)
(* C29.  render_take rejects every input that is not exactly 4             *)
(* photographs, with the panic of its assertion, and produces a strip for  *)
(* every input of exactly 4 photographs.                                   *)
(***************************************************************************)
C29_ExactlyFourOrPanic ==
    take.out # <<"none">>
        => IF Len(take.photos) = PHOTO_COUNT
           THEN take.out[1] = "strip"
           ELSE take.out = <<"panic", "Expected 4 photos">>

(* render_take has rejected three photographs. *)
C29_Witness ==
    /\ Len(take.photos) = 3
    /\ take.out = <<"panic", "Expected 4 photos">>

(***************************************************************************)
(* C30.  The geometry of the strip does not depend on the photographs:     *)
(* photograph i (from 0) is resized to 2000 x 1333 and placed at x = 134,  *)
(* y = 134 + 1466 * i, that is at 134, 1600, 3066 and 4532; the four slots *)
(* are pairwise disjoint; the strip is the template resized to its width   *)
(* and height divided by 3, rounded down; a second call with the same      *)
(* photographs gives the same result.                                      *)
(***************************************************************************)
C30_FixedGeometry ==
    (take.out # <<"none">> /\ Len(take.photos) = PHOTO_COUNT)
        => /\ take.out[1] = "strip"
           /\ \A k \in 1..PHOTO_COUNT :
                 /\ take.out[2][k].x = 134
                 /\ take.out[2][k].y = <<134, 1600, 3066, 4532>>[k]
                 /\ take.out[2][k].size = <<2000, 1333>>
           /\ \A j, k \in 1..PHOTO_COUNT :
                 j < k => take.out[2][j].y + take.out[2][j].size[2] <= take.out[2][k].y
           /\ 3 * take.out[3][1] <= take.template[1]
           /\ take.template[1] < 3 * (take.out[3][1] + 1)
           /\ 3 * take.out[3][2] <= take.template[2]
           /\ take.template[2] < 3 * (take.out[3][2] + 1)
           /\ take.again # <<"none">> => take.again = take.out

(* Four photographs of different sizes were composed twice on a template   *)
(* whose sides are not multiples of 3.                                     *)
C30_Witness ==
    /\ take.template = <<2269, 6001>>
    /\ take.photos = <<<<3000, 2000>>, <<1920, 1080>>, <<3000, 2000>>, <<1920, 1080>>>>
    /\ take.out[1] = "strip"
    /\ take.out[3] = <<756, 2000>>
    /\ take.again = take.out

(***************************************************************************)
(* C31.  The upload request issued when the strip is composed carries the  *)
(* four photographs captured in this sequence, in the order of capture,    *)
(* and the strip composed of those four: a sequence starts its first       *)
(* countdown with no photograph held, the photographs uploaded are the     *)
(* four the camera delivered last, in the order of delivery, and none of   *)
(* them was uploaded before.  After the step the list of captured          *)
(* photographs is empty, the 4 preview handles are those of the            *)
(* photographs uploaded, and upload_handle and the QR data are None.       *)
(***************************************************************************)
C31_UploadCarriesTheSequence ==
    /\ []((InCountdown(state) /\ state.current = 0) => captured_photos = <<>>)
    /\ [][uploadLog' # uploadLog
            => /\ uploadLog' = Append(uploadLog,
                                      [strip |-> render_take(captured_photos),
                                       photos |-> captured_photos])
               /\ captured_photos = [i \in 1..PHOTO_COUNT |-> stills - PHOTO_COUNT + i]
               /\ \A k \in 1..Len(uploadLog), i, j \in 1..PHOTO_COUNT :
                     uploadLog[k].photos[i] # captured_photos[j]
               /\ strip' = Some(render_take(captured_photos))
               /\ strip_handle' = Some(Handle(render_take(captured_photos)))
               /\ captured_photos' = <<>>
               /\ previews' = [i \in 1..PHOTO_COUNT |-> Handle(captured_photos[i])]
               /\ upload_handle' = None
               /\ qr_code_data' = None]_vars

(* The second sequence has just been composed: its upload carries the      *)
(* fifth to eighth photograph, and the handle of the first upload, which   *)
(* had completed, is gone.                                                 *)
C31_Witness ==
    /\ msg = <<"Tick">>
    /\ task = "upload_photo"
    /\ Len(uploadLog) = 2
    /\ uploadLog[2].photos = <<5, 6, 7, 8>>
    /\ uploadLog[2].strip = render_take(<<5, 6, 7, 8>>)
    /\ 1 \in uploadDone
    /\ captured_photos = <<>>
    /\ Len(previews) = 4
    /\ upload_handle = None
    /\ qr_code_data = None

InFlash(s) == s.tag = "CapturePhotos" /\ s.state.tag = "Capture"
InShotPreview(s) == s.tag = "CapturePhotos" /\ s.state.tag = "Preview"

(***************************************************************************)
(* C32.  Within a capture sequence the number of photographs held tracks   *)
(* the shot counter: k in the Countdown of shot k, k while the flash waits *)
(* for the still and k + 1 once the still is in, k + 1 in the Preview of   *)
(* shot k, whose handle is that of the last photograph, the one the camera *)
(* delivered last.  The flash gives way to the Preview only by a Tick      *)
(* handled when no CaptureStill is outstanding, and the lookup of the last *)
(* photograph never fails.  (A still that fails ends the program inside    *)
(* the flash, with its request handled and no photograph added.)           *)
(***************************************************************************)
C32_PhotosTrackShot ==
    /\ [](panic # "capture didn't complete")
    /\ [](InCountdown(state) => Len(captured_photos) = state.current)
    /\ [](InFlash(state)
            => IF state.state.capture_timeline = to_timeline
               THEN /\ Len(captured_photos) = state.current
                    /\ panic = "none" => CapturesInFlight = 1
               ELSE Len(captured_photos) = state.current + 1 /\ CapturesInFlight = 0)
    /\ [](InShotPreview(state)
            => /\ Len(captured_photos) = state.current + 1
               /\ captured_photos[Len(captured_photos)] = stills
               /\ state.state.captured_handle = Handle(stills))
    /\ [][(InFlash(state) /\ InShotPreview(state'))
            => /\ Call("Tick")
               /\ CapturesInFlight = 0
               /\ state'.current = state.current
               /\ Len(captured_photos) = state.current + 1
               /\ state'.state.captured_handle
                     = Handle(captured_photos[Len(captured_photos)])]_vars

(* The Preview of the third shot of the second sequence shows the seventh  *)
(* photograph.                                                             *)
C32_Witness ==
    /\ InShotPreview(state)
    /\ state.current = 2
    /\ Len(uploadLog) = 1
    /\ captured_photos = <<5, 6, 7>>
    /\ state.state.captured_handle = Handle(7)

(***************************************************************************)
(* MainApp::view: the accesses that can fault.  In RenderedPreview and in  *)
(* EmailEntry it unwraps strip_handle, in EmailEntry it indexes emails[0]. *)
(***************************************************************************)
view ==
    CASE state.tag = "RenderedPreview" ->
            IF strip_handle = None THEN "called Option::unwrap() on a None value"
            ELSE "ok"
      [] state.tag = "EmailEntry" ->
            IF emails = <<>> THEN "index out of bounds"
            ELSE IF strip_handle = None THEN "called Option::unwrap() on a None value"
            ELSE "ok"
      [] OTHER -> "ok"

(***************************************************************************)
(* C33.  In EmailEntry the recipient list has at least one element, the    *)
(* input slot, and the strip handle is present; in RenderedPreview the     *)
(* strip handle is present; so the view never faults.                      *)
(***************************************************************************)
C33_ViewNeverFaults ==
    /\ state.tag = "EmailEntry" => (Len(emails) >= 1 /\ strip_handle # None)
    /\ state.tag = "RenderedPreview" => strip_handle # None
    /\ view = "ok"

(* EmailEntry of a second session, after the dispatch of the first had     *)
(* cleared the recipients and the strip handle: one address is added and   *)
(* the strip is that of the second sequence.                               *)
C33_Witness ==
    /\ state.tag = "EmailEntry"
    /\ Len(emailLog) = 1
    /\ emails = <<"", "a@x">>
    /\ strip_handle = Some(Handle(render_take(<<5, 6, 7, 8>>)))
    /\ view = "ok"

(***************************************************************************)
(* C34.  The handle given to send_email and the link shown in EmailEntry   *)
(* come from the upload of the current sequence: from the compose to the   *)
(* end of EmailEntry a handle that is held is that of the latest upload    *)
(* and the QR data held is that of its link, every Uploaded completion     *)
(* handled is that of the latest upload, and every dispatch is made with   *)
(* the handle of the latest upload.  A handle that an earlier session left *)
(* behind is therefore never dispatched or shown in a later one.           *)
(***************************************************************************)
C34_HandleOfCurrentUpload ==
    /\ [](state.tag \in {"RenderedPreview", "EmailEntry"}
            => /\ upload_handle \in {None, Some(Len(uploadLog))}
               /\ qr_code_data \in {None, Some(QrData(get_link(Len(uploadLog))))}
               /\ upload_handle # None => Len(uploadLog) \in uploadDone)
    /\ [][Call("Uploaded") => uploadDone' = uploadDone \cup {Len(uploadLog)}]_vars
    /\ [][emailLog' # emailLog
            => /\ state.tag = "EmailEntry"
               /\ emailLog'[Len(emailLog')].handle = Len(uploadLog)
               /\ \A i \in 1..Len(emailLog) : emailLog[i].handle < Len(uploadLog)]_vars

(* The first session ended without a dispatch; the second is in EmailEntry *)
(* after its own upload completed, and shows the link of that upload.      *)
C34_Witness ==
    /\ state.tag = "EmailEntry"
    /\ Len(uploadLog) = 2
    /\ uploadDone = {1, 2}
    /\ emailLog = <<>>
    /\ upload_handle = Some(2)
    /\ qr_code_data = Some(QrData(get_link(2)))

(***************************************************************************)
(* C35.  In Emailing, Emailed(Ok(false)), an answer of the backend that    *)
(* not every address was reached, moves to PaymentRequired with the error  *)
(* set, and Emailed(Ok(true)) moves there with the error clear: after      *)
(* Emailing the error is clear if and only if the result was Ok(true).     *)
(***************************************************************************)
C35_ErrorClearIffAllReached ==
    [][(Call("Emailed") /\ state.tag = "Emailing")
          => /\ state'.tag = "PaymentRequired"
             /\ msg'[2] = <<"Ok", FALSE>> => state'.error = Some(UnreachedErrorText)
             /\ msg'[2] = <<"Ok", TRUE>> => state'.error = None
             /\ state'.error = None <=> msg'[2] = <<"Ok", TRUE>>]_vars

(* The backend has answered a dispatch to two addresses with Ok(false).    *)
C35_Witness ==
    /\ msg = <<"Emailed", <<"Ok", FALSE>>>>
    /\ state = PaymentRequired(Some(UnreachedErrorText))
    /\ emailDone = {1}
    /\ Len(emailLog[1].emails) = 2

(***************************************************************************)
(* C36.  A key release handled in CapturePhotosPrepare, in CapturePhotos   *)
(* (any sub-state) or in Emailing changes nothing: phase, sub-state,       *)
(* timelines, counters, session data and requests stay as they are and no  *)
(* task is returned.  Handled in RenderedPreview it keeps the phase, the   *)
(* session data and the requests.                                          *)
(***************************************************************************)
C36_KeysIgnoredWhileBusy ==
    /\ [][(Call("KeyReleased")
              /\ state.tag \in {"CapturePhotosPrepare", "CapturePhotos", "Emailing"})
            => /\ state' = state
               /\ UNCHANGED <<Session, stills, Requests>>
               /\ task' = "none"
               /\ panic' = "none"]_vars
    /\ [][(Call("KeyReleased") /\ state.tag = "RenderedPreview")
            => /\ state'.tag = "RenderedPreview"
               /\ UNCHANGED <<Session, stills, Requests>>
               /\ task' = "none"
               /\ panic' = "none"]_vars

(* The confirm key was released while the second shot waited for its       *)
(* still: the flash is still idle and the request still outstanding.       *)
C36_Witness ==
    /\ msg = <<"KeyReleased", "Space">>
    /\ InFlash(state)
    /\ state.current = 1
    /\ state.state.capture_timeline = to_timeline
    /\ Len(captured_photos) = 1
    /\ CapturesInFlight = 1

(***************************************************************************)
(* C37.  In EmailEntry with an upload handle, EmailSubmit with a typed     *)
(* address keeps the phase, puts an empty input slot in front of the list, *)
(* so that the typed address becomes the first recipient, once, and the    *)
(* recipients added before follow it unchanged; no send_email is issued    *)
(* and the handle is kept.                                                 *)
(***************************************************************************)
C37_SubmitAddsTypedAddress ==
    [][(Call("EmailSubmit") /\ state.tag = "EmailEntry" /\ upload_handle # None
            /\ emails # <<>> /\ emails[1] # "")
          => /\ state' = state
             /\ Len(emails') = Len(emails) + 1
             /\ emails'[1] = ""
             /\ emails'[2] = emails[1]
             /\ \A i \in 2..Len(emails) : emails'[i + 1] = emails[i]
             /\ task' = "none"
             /\ emailLog' = emailLog
             /\ upload_handle' = upload_handle
             /\ panic' = "none"]_vars

(* A second address has just been added in front of the first.             *)
C37_Witness ==
    /\ msg = <<"EmailSubmit">>
    /\ state.tag = "EmailEntry"
    /\ emails = <<"", "b@x", "a@x">>
    /\ upload_handle # None
    /\ emailLog = <<>>

InRitual == state.tag \in {"CapturePhotosPrepare", "CapturePhotos"}
StillFailed == panic \in {"failed to capture image", "failed to lock camera mutex"}

(***************************************************************************)
(* C38.  The capture ritual ends: from CapturePhotosPrepare and from every *)
(* sub-state of CapturePhotos, with Ticks arriving and timelines           *)
(* completing, the controller reaches RenderedPreview by itself, unless a  *)
(* still capture failed (which ends the program) or the model's bound on   *)
(* stills is reached.  When it has just arrived there, exactly one upload  *)
(* has been issued since PaymentRequired.                                  *)
(***************************************************************************)
C38_RitualReachesUpload ==
    /\ InRitual ~> (state.tag = "RenderedPreview" \/ StillFailed \/ stills = MaxStills)
    /\ [][(InRitual /\ ~InRitual')
            => /\ state'.tag = "RenderedPreview"
               /\ task' = "upload_photo"
               /\ cycleUploads' = 1]_vars

(* The ritual of the second session has just ended in RenderedPreview with *)
(* its one upload issued, after the eighth still.                          *)
C38_Witness ==
    /\ state.tag = "RenderedPreview"
    /\ msg = <<"Tick">>
    /\ task = "upload_photo"
    /\ cycleUploads = 1
    /\ Len(uploadLog) = 2
    /\ stills = 8
    /\ panic = "none"

(***************************************************************************)
(* C39.  In CapturePhotos the shot counter is in 0 .. PHOTO_COUNT - 1 and  *)
(* in Countdown the count is in 1 .. COUNTDOWN_START, so the decrement of  *)
(* the unsigned count is never applied at 0.  A Tick in Countdown either   *)
(* changes nothing, or lowers a count of 3 or 2 by one with a new timeline *)
(* and requests nothing, or at count 1 moves to the flash and requests the *)
(* still: the request is made at the third completion after the entry at   *)
(* COUNTDOWN_START, and by no other step.                                  *)
(***************************************************************************)
C39_CountersInRange ==
    /\ [](state.tag = "CapturePhotos" => state.current \in 0..(PHOTO_COUNT - 1))
    /\ [](InCountdown(state) => state.state.current \in 1..COUNTDOWN_START)
    /\ [][(InCountdown(state') /\ ~InCountdown(state))
            => state'.state.current = COUNTDOWN_START]_vars
    /\ [][(Call("Tick") /\ InCountdown(state))
            => \/ /\ state' = state
                  /\ capIssued' = capIssued
               \/ /\ state.state.current \in {2, 3}
                  /\ state' = CapturePhotos(state.current,
                                  Countdown(state.state.current - 1, begin_animation))
                  /\ capIssued' = capIssued
               \/ /\ state.state.current = 1
                  /\ state' = CapturePhotos(state.current, Capture(to_timeline))
                  /\ capIssued' = capIssued + 1]_vars
    /\ [][capIssued' # capIssued
            => /\ Call("Tick")
               /\ InCountdown(state)
               /\ state.state.current = 1]_vars

(* The countdown of the last shot has come down to 1.                      *)
C39_Witness ==
    /\ msg = <<"Tick">>
    /\ InCountdown(state)
    /\ state.current = PHOTO_COUNT - 1
    /\ state.state.current = 1
    /\ capIssued = 3

LastCall == nokhwa.calls[Len(nokhwa.calls)]

(***************************************************************************)
(* C40.  For a NokhwaCamera, after any sequence of capture_still_frame and *)
(* capture_video_frame calls, successful or failing, the video stream and  *)
(* the still stream are never both open; after a successful call the       *)
(* stream of the kind requested is the one that is open.                   *)
(***************************************************************************)
C40_OneStreamOpen ==
    /\ ~(nokhwa.video_camera # None /\ nokhwa.still_camera # None)
    /\ (nokhwa.calls # <<>> /\ LastCall[3] = "Ok")
          => IF LastCall[1] = "still"
             THEN /\ nokhwa.still_camera = Some("AbsoluteHighestResolution")
                  /\ nokhwa.video_camera = None
             ELSE /\ nokhwa.video_camera = Some("AbsoluteHighestFrameRate")
                  /\ nokhwa.still_camera = None

(* A video frame, then a still whose stream opened but whose frame failed, *)
(* then a video frame again: the video stream is the one open.             *)
C40_Witness ==
    /\ nokhwa.calls = << <<"video", "ok", "Ok">>, <<"still", "frame", "Err">>,
                         <<"video", "ok", "Ok">> >>
    /\ nokhwa.video_camera # None
    /\ nokhwa.still_camera = None

====
